---- MODULE Spec2Model ----
(***************************************************************************)
(* NBA-to-omega-regex synthesis: the transition graph (tGraph), duplicate  *)
(* edge coalescing, state elimination, McNaughton-Yamada and the lasso     *)
(* drivers, modelled from src/src/nba_expression_synthesis.                *)
(***************************************************************************)
EXTENDS Integers, Sequences, FiniteSets, TLC

VARIABLES
    g,       \* the tGraph object
    g0,      \* g as it was when the last combine / driver call started (None otherwise)
    op,      \* the last call made on g
    adds,    \* number of add_edge calls made so far
    raised,  \* whether the last call left by raising ValueError
    result,  \* the value the last driver call returned
    paths,   \* per final state, the locals of the last driver call
    expr,    \* the Regex / OmegaRegex object the measures are called on
    measures, \* what len(expr), expr.size() and expr.star_height() returned
    run,     \* the solver call in progress: its stage, locals and return value
    args,    \* the arguments of the last call of a function on a graph
    memo     \* the cache of the inner function r of the last mcnaughton_yamada

vars == <<g, g0, op, adds, raised, result, paths, expr, measures, run, args, memo>>

(* ---------------- bounds and input alphabets ---------------- *)

\* number of states of the imported automaton
NumStates == 3
\* number of add_edge calls made on one graph
MaxEdges == 3
\* longest prefix u and period v of the words u.v^omega a language is tested on
MaxPrefix == 1
MaxPeriod == 2
\* longest finite word tested against a path expression
MaxWord == 3
\* most nodes of a Regex object the measures are called on
MaxNodes == 7
\* most nodes of a Regex operand inside an OmegaRegex object
MaxInnerNodes == 2
\* most OmegaRegex nodes of an OmegaRegex object the measures are called on
MaxOmegaNodes == 3
\* most states of an automaton the translator returns to a solver
MaxAutStates == 2
\* longest time, in seconds, a stage of a solver is measured to take
MaxTime == 2
\* most acceptance sets and most edges of an automaton given to the importer
MaxSets == 2
MaxAutEdges == 2
\* most edges of a graph on which mcnaughton_yamada is called several times
MaxMnyEdges == 2
\* longest timeout given to run_with_timeout and last tick of its clock
MaxTimeout == 2
MaxClock == 3
\* number of states of the graphs on which find_path makes two rips
NumEndStates == 4
\* most edges of a graph given to rip
MaxRipEdges == 4
\* most calls of mcnaughton_yamada made one after the other on one graph
MaxCalls == 2
\* formula strings the importer wraps in Symbol
Labels == {"a", "b"}

States == 0 .. (NumStates - 1)

(* ---------------- syntax/omega_regex.py: the expression datatypes ------- *)

\* Optional[...] None
None == [op |-> "None"]
\* an uncaught ValueError leaving a call
ValueError == [op |-> "ValueError"]

Epsilon == [op |-> "Epsilon"]
Empty == [op |-> "Empty"]
Symbol(s) == [op |-> "Symbol", symbol |-> s]
Concat(l, r) == [op |-> "Concat", left |-> l, right |-> r]
Union(l, r) == [op |-> "Union", left |-> l, right |-> r]
Star(x) == [op |-> "Star", regex |-> x]

OmegaEmpty == [op |-> "OmegaEmpty"]
Repeat(x) == [op |-> "Repeat", regex |-> x]
ConcatOmega(l, r) == [op |-> "ConcatOmega", left |-> l, right |-> r]
UnionOmega(l, r) == [op |-> "UnionOmega", left |-> l, right |-> r]

(* ---------------- synthesis/graph.py ---------------- *)

\* An Edge object.  id is the object's identity: Graph.add_edge appends the
\* SAME object to out_edges and in_edges, so an assignment to its label is
\* seen through both lists.  Objects of the trans lists are separate objects
\* that are never assigned to; they carry id 0.
Edge(id, src, dst, label, accepting) ==
    [id |-> id, src |-> src, dst |-> dst, label |-> label, accepting |-> accepting]

\* Edge.__eq__: src, dst and label; the accepting flag is not compared
EdgeEq(x, y) == x.src = y.src /\ x.dst = y.dst /\ x.label = y.label

\* list.index by ==: position of the first element equal to e, 0 when absent
IndexOf(seq, e) ==
    IF \E i \in 1 .. Len(seq) : EdgeEq(seq[i], e)
    THEN CHOOSE i \in 1 .. Len(seq) :
            EdgeEq(seq[i], e) /\ \A j \in 1 .. (i - 1) : ~EdgeEq(seq[j], e)
    ELSE 0

RemoveAt(seq, i) == SubSeq(seq, 1, i - 1) \o SubSeq(seq, i + 1, Len(seq))

\* list.remove(e): drops the first element equal to e (caller checks presence)
ListRemove(seq, e) == RemoveAt(seq, IndexOf(seq, e))

Vertex(number) == [number |-> number, out_edges |-> <<>>, in_edges |-> <<>>]

\* tGraph.__init__ on top of Graph.__init__
tGraph(num_states, initial_state) ==
    [num_states |-> num_states,
     initial_state |-> initial_state,
     final_states |-> {},
     vertices |-> [v \in 0 .. (num_states - 1) |-> Vertex(v)],
     acc_trans |-> <<>>,
     nonacc_trans |-> <<>>]

SeqMax(seq) ==
    IF seq = <<>> THEN 0
    ELSE CHOOSE m \in {seq[i].id : i \in 1 .. Len(seq)} :
            \A i \in 1 .. Len(seq) : seq[i].id <= m

SetMax(S) == IF S = {} THEN 0 ELSE CHOOSE m \in S : \A x \in S : x <= m

\* identity of the next Edge object allocated for graph gr
NewId(gr) ==
    1 + SetMax({SeqMax(gr.vertices[v].out_edges) : v \in DOMAIN gr.vertices}
               \cup {SeqMax(gr.vertices[v].in_edges) : v \in DOMAIN gr.vertices})

\* Graph.add_edge: one object appended to both adjacency lists
Graph_add_edge(gr, src, dst, label, accepting) ==
    LET e == Edge(NewId(gr), src, dst, label, accepting)
        v1 == [gr.vertices EXCEPT ![src].out_edges = Append(@, e)]
        v2 == [v1 EXCEPT ![dst].in_edges = Append(@, e)]
    IN [gr EXCEPT !.vertices = v2]

\* Graph.remove_edge: list.remove on out_edges, then on in_edges; a missing
\* element raises ValueError and leaves what was done before it
Graph_remove_edge(gr, src, dst, label) ==
    LET e == Edge(0, src, dst, label, FALSE)
    IN IF IndexOf(gr.vertices[src].out_edges, e) = 0
       THEN [g |-> gr, raised |-> TRUE]
       ELSE LET g1 == [gr EXCEPT !.vertices[src].out_edges = ListRemove(@, e)]
            IN IF IndexOf(g1.vertices[dst].in_edges, e) = 0
               THEN [g |-> g1, raised |-> TRUE]
               ELSE [g |-> [g1 EXCEPT !.vertices[dst].in_edges = ListRemove(@, e)],
                     raised |-> FALSE]

(* ---------------- synthesis/transition_graph_to_regex.py: tGraph -------- *)

get_accepting_transitions_from(gr, src) ==
    LET Acc(e) == e.accepting IN SelectSeq(gr.vertices[src].out_edges, Acc)

get_nonaccepting_transitions_from(gr, src) ==
    LET NonAcc(e) == ~e.accepting IN SelectSeq(gr.vertices[src].out_edges, NonAcc)

state_pseudoaccepting(gr, state) ==
    /\ Len(get_nonaccepting_transitions_from(gr, state)) > 0
    /\ Len(get_accepting_transitions_from(gr, state)) > 0

\* tGraph.add_edge, lines 20-24: g1 is the graph after super().add_edge
add_edge_trans(g1, src, dst, label, accepting) ==
    IF accepting
    THEN [g1 EXCEPT !.acc_trans = Append(@, Edge(0, src, dst, label, accepting)),
                    !.final_states = @ \cup {src}]
    ELSE [g1 EXCEPT !.nonacc_trans = Append(@, Edge(0, src, dst, label, FALSE))]

\* tGraph.add_edge
add_edge(gr, src, dst, label, accepting) ==
    add_edge_trans(Graph_add_edge(gr, src, dst, label, accepting),
                   src, dst, label, accepting)

\* tGraph.remove_edge, lines 35-38: g2 is the graph after the trans list remove
remove_edge_finals(g2, src) ==
    IF src \in g2.final_states /\ Len(get_accepting_transitions_from(g2, src)) = 0
    THEN [g |-> [g2 EXCEPT !.final_states = @ \ {src}], raised |-> FALSE]
    ELSE [g |-> g2, raised |-> FALSE]

\* tGraph.remove_edge, lines 28-34: sup is the outcome of super().remove_edge;
\* list.remove on the trans list raises ValueError when no equal edge is in it
remove_edge_trans(sup, src, dst, label, accepting) ==
    LET e == Edge(0, src, dst, label, accepting)
    IN IF sup.raised THEN sup
       ELSE IF accepting
       THEN IF IndexOf(sup.g.acc_trans, e) = 0 THEN [g |-> sup.g, raised |-> TRUE]
            ELSE remove_edge_finals([sup.g EXCEPT !.acc_trans = ListRemove(@, e)], src)
       ELSE IF IndexOf(sup.g.nonacc_trans, e) = 0 THEN [g |-> sup.g, raised |-> TRUE]
            ELSE remove_edge_finals([sup.g EXCEPT !.nonacc_trans = ListRemove(@, e)], src)

\* tGraph.remove_edge
remove_edge(gr, src, dst, label, accepting) ==
    remove_edge_trans(Graph_remove_edge(gr, src, dst, label), src, dst, label, accepting)

(* ---------------- combine_duplicate_edge ---------------- *)

\* position of key in the (insertion ordered) dict, 0 when absent
KeyIndex(edge_dict, key) ==
    IF \E i \in 1 .. Len(edge_dict) : edge_dict[i].key = key
    THEN CHOOSE i \in 1 .. Len(edge_dict) : edge_dict[i].key = key
    ELSE 0

\* edge_dict[key].append(e) on a defaultdict(list)
DictAppend(edge_dict, key, e) ==
    IF KeyIndex(edge_dict, key) = 0
    THEN Append(edge_dict, [key |-> key, edges |-> <<e>>])
    ELSE [edge_dict EXCEPT ![KeyIndex(edge_dict, key)].edges = Append(@, e)]

RECURSIVE DictOfEdges(_, _)
DictOfEdges(edge_dict, edges) ==
    IF edges = <<>> THEN edge_dict
    ELSE LET e == Head(edges)
         IN DictOfEdges(DictAppend(edge_dict, <<e.src, e.dst, e.accepting>>, e),
                        Tail(edges))

\* the vertices of gr in dict order (ascending: built by range, only deleted from)
RECURSIVE SortedSeq(_)
SortedSeq(S) ==
    IF S = {} THEN <<>>
    ELSE LET m == CHOOSE x \in S : \A y \in S : x <= y
         IN <<m>> \o SortedSeq(S \ {m})

RECURSIVE DictOfVertices(_, _, _)
DictOfVertices(edge_dict, gr, vs) ==
    IF vs = <<>> THEN edge_dict
    ELSE DictOfVertices(DictOfEdges(edge_dict, gr.vertices[Head(vs)].out_edges),
                        gr, Tail(vs))

\* lines 361-365: edge_dict, keyed by (src, dst, accepting), of the Edge
\* objects of all out_edges lists
EdgeDict(gr) == DictOfVertices(<<>>, gr, SortedSeq(DOMAIN gr.vertices))

\* combined_label = edges[0].label; for e in edges[1:]: Union(combined_label, e.label)
RECURSIVE CombinedLabel(_, _)
CombinedLabel(acc, rest) ==
    IF rest = <<>> THEN acc
    ELSE CombinedLabel(Union(acc, Head(rest).label), Tail(rest))

\* edges[0].label = combined_label: the object is the element of out_edges
\* and in_edges with that identity
SetLabel(gr, id, label) ==
    LET Upd(seq) == [i \in 1 .. Len(seq) |->
                        IF seq[i].id = id THEN [seq[i] EXCEPT !.label = label]
                        ELSE seq[i]]
    IN [gr EXCEPT !.vertices =
            [v \in DOMAIN gr.vertices |->
                [gr.vertices[v] EXCEPT !.out_edges = Upd(@), !.in_edges = Upd(@)]]]

\* lines 379-381: for e in edges[1:]: g.remove_edge(...); edge_dict[key].remove(e)
\* lst is edge_dict[key]; a ValueError of remove_edge leaves the loop
RECURSIVE RemoveOthers(_, _, _)
\* line 381 and the next iteration: r is the outcome of g.remove_edge for Head(rest)
RemoveOthersStep(r, lst, rest) ==
    IF r.raised THEN [g |-> r.g, lst |-> lst, raised |-> TRUE]
    ELSE RemoveOthers(r.g, ListRemove(lst, Head(rest)), Tail(rest))

RemoveOthers(gr, lst, rest) ==
    IF rest = <<>> THEN [g |-> gr, lst |-> lst, raised |-> FALSE]
    ELSE RemoveOthersStep(
            remove_edge(gr, Head(rest).src, Head(rest).dst, Head(rest).label,
                        Head(rest).accepting),
            lst, rest)

\* first dict entry with more than one edge, 0 when there is none
FirstDuplicate(edge_dict) ==
    IF \E i \in 1 .. Len(edge_dict) : Len(edge_dict[i].edges) > 1
    THEN CHOOSE i \in 1 .. Len(edge_dict) :
            /\ Len(edge_dict[i].edges) > 1
            /\ \A j \in 1 .. (i - 1) : Len(edge_dict[j].edges) <= 1
    ELSE 0

\* lines 383-387: r is the outcome of the removal loop; the key is deleted when
\* one edge is left in its list
CombineRemoved(edge_dict, k, r) ==
    IF r.raised
    THEN [g |-> r.g, edge_dict |-> [edge_dict EXCEPT ![k].edges = r.lst],
          raised |-> TRUE, changed |-> FALSE]
    ELSE [g |-> r.g,
          edge_dict |-> IF Len(r.lst) = 1 THEN RemoveAt(edge_dict, k)
                        ELSE [edge_dict EXCEPT ![k].edges = r.lst],
          raised |-> FALSE, changed |-> TRUE]

\* lines 376-381: edges[0].label = combined_label, then the removal loop
CombineEdges(gr, edge_dict, k, edges, combined_label) ==
    CombineRemoved(edge_dict, k,
        RemoveOthers(SetLabel(gr, edges[1].id, combined_label),
                     <<[edges[1] EXCEPT !.label = combined_label]>> \o Tail(edges),
                     Tail(edges)))

\* lines 368-373 and 388: k is the first key with more than one edge (0: none)
CombineAt(gr, edge_dict, k) ==
    IF k = 0
    THEN [g |-> gr, edge_dict |-> edge_dict, raised |-> FALSE, changed |-> FALSE]
    ELSE CombineEdges(gr, edge_dict, k, edge_dict[k].edges,
                      CombinedLabel(edge_dict[k].edges[1].label,
                                    Tail(edge_dict[k].edges)))

\* combine_one_duplicate_edge: one pass over edge_dict; changed is its return
combine_one_duplicate_edge(gr, edge_dict) ==
    CombineAt(gr, edge_dict, FirstDuplicate(edge_dict))

\* while combine_one_duplicate_edge(): pass
RECURSIVE CombineLoop(_, _)
\* r is the outcome of one combine_one_duplicate_edge()
CombineLoopStep(r) ==
    IF r.raised THEN [g |-> r.g, raised |-> TRUE]
    ELSE IF r.changed THEN CombineLoop(r.g, r.edge_dict)
    ELSE [g |-> r.g, raised |-> FALSE]

CombineLoop(gr, edge_dict) == CombineLoopStep(combine_one_duplicate_edge(gr, edge_dict))

\* combine_duplicate_edge(g): works on g itself and returns it
combine_duplicate_edge(gr) == CombineLoop(gr, EdgeDict(gr))

(* ---------------- state elimination ---------------- *)

\* r = None; for e in kept: r = e.label if r is None else Union(r, e.label),
\* kept being the edges of the loop that pass its if
UnionOfLabels(kept) ==
    IF kept = <<>> THEN None
    ELSE CombinedLabel(kept[1].label, Tail(kept))

\* find_rip_vertex: the smallest state other than the endpoints; -1 stands for None
find_rip_vertex(gr, v_start, v_end) ==
    LET states == (DOMAIN gr.vertices) \ {v_start, v_end}
    IN IF states = {} THEN -1
       ELSE CHOOSE x \in states : \A y \in states : x <= y

\* contain_self_loop: the first self-loop of out_edges, or None
contain_self_loop(gr, v) ==
    LET out == gr.vertices[v].out_edges
    IN IF \E i \in 1 .. Len(out) : out[i].src = out[i].dst
       THEN out[CHOOSE i \in 1 .. Len(out) :
                   /\ out[i].src = out[i].dst
                   /\ \A j \in 1 .. (i - 1) : out[j].src # out[j].dst]
       ELSE None

\* added_edges with the accepting flag of the out-edge
RECURSIVE AddedEdgesFor_OutFlag(_, _, _, _)
AddedEdgesFor_OutFlag(e_in, outs, v_rip, r_rip) ==
    IF outs = <<>> THEN <<>>
    ELSE LET e_out == Head(outs)
             r == IF r_rip = None THEN Concat(e_in.label, e_out.label)
                  ELSE Concat(e_in.label, Concat(Star(r_rip), e_out.label))
             rest == AddedEdgesFor_OutFlag(e_in, Tail(outs), v_rip, r_rip)
         IN IF e_in.src = v_rip \/ e_out.dst = v_rip THEN rest
            ELSE <<Edge(0, e_in.src, e_out.dst, r, e_out.accepting)>> \o rest

\* lines 238-246: the (src, dst, label, accepting) tuples of added_edges
RECURSIVE AddedEdgesFor(_, _, _, _)
AddedEdgesFor(e_in, outs, v_rip, r_rip) ==
    IF outs = <<>> THEN <<>>
    ELSE LET e_out == Head(outs)
             r == IF r_rip = None THEN Concat(e_in.label, e_out.label)
                  ELSE Concat(e_in.label, Concat(Star(r_rip), e_out.label))
             rest == AddedEdgesFor(e_in, Tail(outs), v_rip, r_rip)
         IN IF e_in.src = v_rip \/ e_out.dst = v_rip THEN rest
            ELSE <<Edge(0, e_in.src, e_out.dst, r, e_in.accepting)>> \o rest

RECURSIVE AddedEdges(_, _, _, _)
AddedEdges(ins, outs, v_rip, r_rip) ==
    IF ins = <<>> THEN <<>>
    ELSE AddedEdgesFor(Head(ins), outs, v_rip, r_rip)
         \o AddedEdges(Tail(ins), outs, v_rip, r_rip)

\* lines 247-248: for e_in in in_edges[v_rip]: vertices[e_in.src].out_edges.remove(e_in)
\* (the list of v_rip is read while the loop runs: position k)
RECURSIVE RemoveInEdges(_, _, _)
RemoveInEdges(gr, v_rip, k) ==
    IF k > Len(gr.vertices[v_rip].in_edges) THEN [g |-> gr, raised |-> FALSE]
    ELSE LET e_in == gr.vertices[v_rip].in_edges[k]
         IN IF IndexOf(gr.vertices[e_in.src].out_edges, e_in) = 0
            THEN [g |-> gr, raised |-> TRUE]
            ELSE RemoveInEdges(
                    [gr EXCEPT !.vertices[e_in.src].out_edges = ListRemove(@, e_in)],
                    v_rip, k + 1)

\* lines 249-250: for e_out in out_edges[v_rip]: vertices[e_out.dst].in_edges.remove(e_out)
RECURSIVE RemoveOutEdges(_, _, _)
RemoveOutEdges(gr, v_rip, k) ==
    IF k > Len(gr.vertices[v_rip].out_edges) THEN [g |-> gr, raised |-> FALSE]
    ELSE LET e_out == gr.vertices[v_rip].out_edges[k]
         IN IF IndexOf(gr.vertices[e_out.dst].in_edges, e_out) = 0
            THEN [g |-> gr, raised |-> TRUE]
            ELSE RemoveOutEdges(
                    [gr EXCEPT !.vertices[e_out.dst].in_edges = ListRemove(@, e_out)],
                    v_rip, k + 1)

\* lines 251-252: for s, t, r, a in added_edges: g.add_edge(s, t, r, a)
RECURSIVE AddAll(_, _)
AddAll(gr, added) ==
    IF added = <<>> THEN gr
    ELSE LET e == Head(added)
         IN AddAll(add_edge(gr, e.src, e.dst, e.label, e.accepting), Tail(added))

\* del g.vertices[v]
DelVertex(gr, v) ==
    [gr EXCEPT !.vertices = [u \in (DOMAIN gr.vertices) \ {v} |-> gr.vertices[u]]]

\* lines 235-236: r_rip, the label of the first self-loop of v_rip, or None
RRip(gr, v_rip) ==
    LET loop == contain_self_loop(gr, v_rip)
    IN IF loop # None THEN loop.label ELSE None

\* lines 251-254: r2 is the outcome of the loop of lines 249-250
RipAdd(v_rip, added_edges, r2) ==
    IF r2.raised THEN r2
    ELSE [g |-> [DelVertex(AddAll(r2.g, added_edges), v_rip)
                    EXCEPT !.num_states = @ - 1],
          raised |-> FALSE]

\* lines 249-254: r1 is the outcome of the loop of lines 247-248
RipRemoveOut(v_rip, added_edges, r1) ==
    IF r1.raised THEN r1
    ELSE RipAdd(v_rip, added_edges, RemoveOutEdges(r1.g, v_rip, 1))

\* rip(g, v_rip, ...): acc, v_start and v_end are not read by the body
rip(gr, v_rip) ==
    RipRemoveOut(v_rip,
                 AddedEdges(gr.vertices[v_rip].in_edges, gr.vertices[v_rip].out_edges,
                            v_rip, RRip(gr, v_rip)),
                 RemoveInEdges(gr, v_rip, 1))

\* the elimination loop of find_path / find_accpath / find_nonaccpath, on the
\* deep copy: while v_rip is not None: rip; combine_duplicate_edge; find_rip_vertex
RECURSIVE RipLoop(_, _, _)
\* lines 126-127: c is the outcome of combine_duplicate_edge(g)
RipLoopCombined(c, v_start, v_end) ==
    IF c.raised THEN c ELSE RipLoop(c.g, v_start, v_end)

\* lines 125-126: r is the outcome of rip(g, v_rip)
RipLoopRipped(r, v_start, v_end) ==
    IF r.raised THEN r
    ELSE RipLoopCombined(combine_duplicate_edge(r.g), v_start, v_end)

\* line 124: while v_rip is not None
RipLoopAt(gr, v_start, v_end, v_rip) ==
    IF v_rip = -1 THEN [g |-> gr, raised |-> FALSE]
    ELSE RipLoopRipped(rip(gr, v_rip), v_start, v_end)

RipLoop(gr, v_start, v_end) ==
    RipLoopAt(gr, v_start, v_end, find_rip_vertex(gr, v_start, v_end))

\* a combine_final that leaves out the self-loops of v_start
combine_final_NoStar(r1, r2, r3, r4) == r2

\* combine_final: r3 and r4 are not read
combine_final(r1, r2, r3, r4) ==
    IF r1 = None THEN r2 ELSE Concat(Star(r1), r2)

\* lines 135-141: r3, r4 from the out_edges of v_end
R3(gr, v_start, v_end) ==
    LET Keep(e) == e.dst = v_start
    IN UnionOfLabels(SelectSeq(gr.vertices[v_end].out_edges, Keep))

R4(gr, v_start, v_end) ==
    LET Keep(e) == e.dst = v_end
    IN UnionOfLabels(SelectSeq(gr.vertices[v_end].out_edges, Keep))

\* lines 128-146: rl is the outcome of the elimination loop on the copy;
\* ValueError when the loop raised
FindPathFinal(rl, v_start, v_end) ==
    LET K1(e) == e.dst = v_start
        K2(e) == e.dst = v_end
        r1 == UnionOfLabels(SelectSeq(rl.g.vertices[v_start].out_edges, K1))
        r2 == UnionOfLabels(SelectSeq(rl.g.vertices[v_start].out_edges, K2))
    IN IF rl.raised THEN ValueError
       ELSE IF r2 = None THEN None
       ELSE IF v_start = v_end THEN r2
       ELSE combine_final(r1, r2, R3(rl.g, v_start, v_end), R4(rl.g, v_start, v_end))

\* a faulty variant of FindAccPathFinal that does not look at the accepting flag
FindAccPathFinal_AnyFirst(rl, v_start, v_end) == FindPathFinal(rl, v_start, v_end)

\* lines 156-178
FindAccPathFinal(rl, v_start, v_end) ==
    LET K1(e) == e.dst = v_start /\ e.dst # v_end /\ e.accepting
        K2(e) == e.dst = v_end /\ ~(e.src = v_start /\ ~e.accepting)
        r1 == UnionOfLabels(SelectSeq(rl.g.vertices[v_start].out_edges, K1))
        r2 == UnionOfLabels(SelectSeq(rl.g.vertices[v_start].out_edges, K2))
    IN IF rl.raised THEN ValueError
       ELSE IF r2 = None THEN None
       ELSE IF v_start = v_end THEN r2
       ELSE combine_final(r1, r2, R3(rl.g, v_start, v_end), R4(rl.g, v_start, v_end))

\* lines 187-210
FindNonAccPathFinal(rl, v_start, v_end) ==
    LET K1(e) == e.dst = v_start /\ e.dst # v_end /\ ~e.accepting
        K2(e) == e.dst = v_end /\ ~(e.src = v_start /\ e.accepting)
        r1 == UnionOfLabels(SelectSeq(rl.g.vertices[v_start].out_edges, K1))
        r2 == UnionOfLabels(SelectSeq(rl.g.vertices[v_start].out_edges, K2))
    IN IF rl.raised THEN ValueError
       ELSE IF r2 = None THEN None
       ELSE IF v_start = v_end THEN r2
       ELSE combine_final(r1, r2, R3(rl.g, v_start, v_end), R4(rl.g, v_start, v_end))

\* find_path(g, v_start, v_end) on copy.deepcopy(g); ValueError when it raises
find_path(gr, v_start, v_end) ==
    FindPathFinal(RipLoop(gr, v_start, v_end), v_start, v_end)

find_accpath(gr, v_start, v_end) ==
    FindAccPathFinal(RipLoop(gr, v_start, v_end), v_start, v_end)

find_nonaccpath(gr, v_start, v_end) ==
    FindNonAccPathFinal(RipLoop(gr, v_start, v_end), v_start, v_end)

(* ---------------- McNaughton-Yamada ---------------- *)

\* transitions.get(i_p, {}).get(j_p, []): the out_edges of i_p that go to j_p
Transitions(tba, i_p, j_p) ==
    LET To(e) == e.dst = j_p
    IN IF i_p \in DOMAIN tba.vertices
       THEN SelectSeq(tba.vertices[i_p].out_edges, To)
       ELSE <<>>

\* a base case that filters by the accepting flag at every source state
BaseCase_FilterEverywhere(tba, i, acc, i_p, j_p) ==
    LET IsAcc(e) == e.accepting
        NonAcc(e) == ~e.accepting
        all == Transitions(tba, i_p, j_p)
        trans == IF acc = "True" THEN SelectSeq(all, IsAcc)
                 ELSE IF acc = "False" THEN SelectSeq(all, NonAcc)
                 ELSE all
    IN IF trans = <<>> THEN None
       ELSE CombinedLabel(trans[1].label, Tail(trans))

\* the k == -1 case of r; acc is "None", "True" or "False"
BaseCase(tba, i, acc, i_p, j_p) ==
    LET IsAcc(e) == e.accepting
        NonAcc(e) == ~e.accepting
        all == Transitions(tba, i_p, j_p)
        trans == IF i_p = i /\ acc = "True" THEN SelectSeq(all, IsAcc)
                 ELSE IF i_p = i /\ acc = "False" THEN SelectSeq(all, NonAcc)
                 ELSE all
    IN IF trans = <<>> THEN None
       ELSE CombinedLabel(trans[1].label, Tail(trans))

\* the inner function r(i_p, j_p, k) of mcnaughton_yamada(tba, i, j, acc)
RECURSIVE R(_, _, _, _, _, _)
R(tba, i, acc, i_p, j_p, k) ==
    IF k = -1 THEN BaseCase(tba, i, acc, i_p, j_p)
    ELSE IF k = j_p THEN R(tba, i, acc, i_p, j_p, k - 1)
    ELSE IF k = i_p
    THEN LET rep == R(tba, i, acc, i_p, i_p, k - 1)
             go == R(tba, i, acc, i_p, j_p, k - 1)
         IN IF rep = None THEN go
            ELSE IF go = None THEN None
            ELSE Concat(Star(rep), go)
    ELSE LET prev == R(tba, i, acc, i_p, k, k - 1)
             rep == R(tba, i, acc, k, k, k - 1)
             go == R(tba, i, acc, k, j_p, k - 1)
             i_j == R(tba, i, acc, i_p, j_p, k - 1)
             res == IF rep = None THEN Concat(prev, go)
                    ELSE Concat(prev, Concat(Star(rep), go))
         IN IF prev = None \/ go = None THEN i_j
            ELSE IF i_j # None THEN Union(i_j, res) ELSE res

mcnaughton_yamada(tba, i, j, acc) == R(tba, i, acc, i, j, tba.num_states - 1)

\* the cache a call of mcnaughton_yamada would start with if its inner
\* function r were shared between calls
MemoAtCall_Shared(cache) == cache

\* line 74: @lru_cache(maxsize=None) decorates a function object created
\* inside the call, so every top-level call starts with an empty cache
MemoAtCall(cache) == <<>>

\* the lru_cache wrapper of r: a stored value is returned without running r
Cached(key, cache, computed) ==
    [val |-> computed.val, memo |-> (key :> computed.val) @@ computed.memo]

RECURSIVE RCall(_, _, _, _, _, _, _)
RECURSIVE RBody(_, _, _, _, _, _, _)

\* lines 94-100 of r, after rep has been computed
RLoopGo(rep, go) ==
    [val |-> IF rep.val = None THEN go.val
             ELSE IF go.val = None THEN None
             ELSE Concat(Star(rep.val), go.val),
     memo |-> go.memo]

RLoopRep(tba, i, acc, i_p, j_p, k, rep) ==
    RLoopGo(rep, RCall(tba, i, acc, i_p, j_p, k - 1, rep.memo))

\* lines 102-116 of r, after prev, rep, go and i_j have been computed
RStepCombine(prev, rp, go, i_j) ==
    [val |-> IF prev.val = None \/ go.val = None THEN i_j.val
             ELSE IF i_j.val # None
             THEN Union(i_j.val,
                        IF rp.val = None THEN Concat(prev.val, go.val)
                        ELSE Concat(prev.val, Concat(Star(rp.val), go.val)))
             ELSE IF rp.val = None THEN Concat(prev.val, go.val)
             ELSE Concat(prev.val, Concat(Star(rp.val), go.val)),
     memo |-> i_j.memo]

RStepGo(tba, i, acc, i_p, j_p, k, prev, rp, go) ==
    RStepCombine(prev, rp, go, RCall(tba, i, acc, i_p, j_p, k - 1, go.memo))

RStepRep(tba, i, acc, i_p, j_p, k, prev, rp) ==
    RStepGo(tba, i, acc, i_p, j_p, k, prev, rp,
            RCall(tba, i, acc, k, j_p, k - 1, rp.memo))

RStepPrev(tba, i, acc, i_p, j_p, k, prev) ==
    RStepRep(tba, i, acc, i_p, j_p, k, prev,
             RCall(tba, i, acc, k, k, k - 1, prev.memo))

\* the body of r(i_p, j_p, k), run with the cache as it is at the call
RBody(tba, i, acc, i_p, j_p, k, cache) ==
    IF k = -1 THEN [val |-> BaseCase(tba, i, acc, i_p, j_p), memo |-> cache]
    ELSE IF k = j_p THEN RCall(tba, i, acc, i_p, j_p, k - 1, cache)
    ELSE IF k = i_p
    THEN RLoopRep(tba, i, acc, i_p, j_p, k,
                  RCall(tba, i, acc, i_p, i_p, k - 1, cache))
    ELSE RStepPrev(tba, i, acc, i_p, j_p, k,
                   RCall(tba, i, acc, i_p, k, k - 1, cache))

\* a call r(i_p, j_p, k) through the cache, keyed by (i_p, j_p, k)
RCall(tba, i, acc, i_p, j_p, k, cache) ==
    IF <<i_p, j_p, k>> \in DOMAIN cache
    THEN [val |-> cache[<<i_p, j_p, k>>], memo |-> cache]
    ELSE Cached(<<i_p, j_p, k>>, cache, RBody(tba, i, acc, i_p, j_p, k, cache))

\* line 118 with the cache of r made explicit: return r(i, j, num_states - 1)
mcnaughton_yamada_cached(tba, i, j, acc, cache) ==
    RCall(tba, i, acc, i, j, tba.num_states - 1, cache)

(* ---------------- the lasso drivers ---------------- *)

\* a faulty variant of LassoContribution that forgets the Star(path3) factor
LassoContribution_NoStar(path1, path2, path3) ==
    IF path2 = None THEN <<>>
    ELSE IF path1 = None THEN <<Repeat(path2)>>
    ELSE <<ConcatOmega(path1, Repeat(path2))>>

\* lines 316-325 (264-273): what one final state appends to all_paths
LassoContribution(path1, path2, path3) ==
    IF path1 = None /\ path2 # None
    THEN IF path3 = None THEN <<Repeat(path2)>>
         ELSE <<Repeat(Concat(Star(path3), path2))>>
    ELSE IF path1 # None /\ path2 # None
    THEN IF path3 = None THEN <<ConcatOmega(path1, Repeat(path2))>>
         ELSE <<ConcatOmega(path1, Repeat(Concat(Star(path3), path2)))>>
    ELSE <<>>

\* a faulty variant of FoldUnionOmega that nests to the right
RECURSIVE FoldUnionOmega_Right(_, _)
FoldUnionOmega_Right(p, rest) ==
    IF rest = <<>> THEN p
    ELSE UnionOmega(p, FoldUnionOmega_Right(Head(rest), Tail(rest)))

\* lines 326-331 (274-280): OmegaEmpty, or the fold of UnionOmega over all_paths
RECURSIVE FoldUnionOmega(_, _)
FoldUnionOmega(p, rest) ==
    IF rest = <<>> THEN p
    ELSE FoldUnionOmega(UnionOmega(p, Head(rest)), Tail(rest))

\* a faulty variant of LassoUnion that has no result for an empty all_paths
LassoUnion_NoneWhenEmpty(all_paths) ==
    IF Len(all_paths) = 0 THEN None
    ELSE FoldUnionOmega(all_paths[1], Tail(all_paths))

LassoUnion(all_paths) ==
    IF Len(all_paths) = 0 THEN OmegaEmpty
    ELSE FoldUnionOmega(all_paths[1], Tail(all_paths))

\* the locals of one iteration of "for f in g.final_states" of taut_to_regex_bmc
BmcLocals(gr, f) ==
    LET path1 == IF gr.initial_state # f THEN find_path(gr, gr.initial_state, f) ELSE None
        path2 == find_accpath(gr, f, f)
        path3 == IF state_pseudoaccepting(gr, f) THEN find_nonaccpath(gr, f, f) ELSE None
    IN [f |-> f, path1 |-> path1, path2 |-> path2, path3 |-> path3]

\* the locals of one iteration of "for f in g.final_states" of taut_to_regex_mny
MnyLocals(gr, f) ==
    LET path1 == IF gr.initial_state # f
                 THEN mcnaughton_yamada(gr, gr.initial_state, f, "None") ELSE None
        path2 == mcnaughton_yamada(gr, f, f, "True")
        path3 == IF state_pseudoaccepting(gr, f)
                 THEN mcnaughton_yamada(gr, f, f, "False") ELSE None
    IN [f |-> f, path1 |-> path1, path2 |-> path2, path3 |-> path3]

\* the order of "for f in g.final_states": CPython walks a set by hash slot,
\* and hash(i) = i for the state numbers, all smaller than the table
FinalsInOrder(gr) == SortedSeq(gr.final_states)

\* whether a path query of these locals raised
LocalsRaised(l) == l.path1 = ValueError \/ l.path2 = ValueError \/ l.path3 = ValueError

\* the loop over the final states: the locals of every iteration that returned,
\* with a last record holding ValueError if a query raised
RECURSIVE LassoLoop(_, _, _)
\* l holds the locals of the iteration for Head(fs)
LassoLoopStep(l, gr, fs, backend) ==
    IF LocalsRaised(l) THEN <<l>>
    ELSE <<l>> \o LassoLoop(gr, Tail(fs), backend)

LassoLoop(gr, fs, backend) ==
    IF fs = <<>> THEN <<>>
    ELSE LassoLoopStep(IF backend = "bmc" THEN BmcLocals(gr, Head(fs))
                       ELSE MnyLocals(gr, Head(fs)),
                       gr, fs, backend)

RECURSIVE AllPaths(_)
AllPaths(ls) ==
    IF ls = <<>> THEN <<>>
    ELSE LassoContribution(Head(ls).path1, Head(ls).path2, Head(ls).path3)
         \o AllPaths(Tail(ls))

\* lines 326-331 (274-280): ls holds the locals of the iterations made on gc
LassoResult(gc, ls) ==
    IF ls # <<>> /\ LocalsRaised(ls[Len(ls)])
    THEN [g |-> gc, raised |-> TRUE, result |-> ValueError, paths |-> ls]
    ELSE [g |-> gc, raised |-> FALSE, result |-> LassoUnion(AllPaths(ls)),
          paths |-> ls]

\* lines 311-325 (259-273): c is the outcome of g = combine_duplicate_edge(g)
LassoCombined(c, backend) ==
    IF c.raised
    THEN [g |-> c.g, raised |-> TRUE, result |-> ValueError, paths |-> <<>>]
    ELSE LassoResult(c.g, LassoLoop(c.g, FinalsInOrder(c.g), backend))

\* the body shared by taut_to_regex_bmc and taut_to_regex_mny
LassoDriver(gr, backend) == LassoCombined(combine_duplicate_edge(gr), backend)

taut_to_regex_bmc(gr) == LassoDriver(gr, "bmc")

taut_to_regex_mny(gr) == LassoDriver(gr, "mny")

(* ---------------- syntax/omega_regex.py: the measures ---------------- *)

\* the outcome of a call: the value returned, or the exception of a pop from
\* an empty deque
Return(n) == [raised |-> FALSE, value |-> n]
IndexError == [raised |-> TRUE, value |-> -1]

\* the tokens of the traversal deque: a number, "+" or "?"
Num(n) == [num |-> n]
Plus == [mark |-> "+"]
Quest == [mark |-> "?"]

\* the last element of a non-empty list or deque
Last(seq) == seq[Len(seq)]

\* the list or deque without its last element
Front(seq) == SubSeq(seq, 1, Len(seq) - 1)

\* the while loop of postorderTraversal: stack is popped at its end, ret_val
\* grows at its left end; an Empty node returns [] at once
RECURSIVE TraversalLoop(_, _, _)
TraversalLoop(stack, ret_val, size) ==
    IF stack = <<>> THEN ret_val
    ELSE CASE Last(stack).op = "Empty" -> <<>>
           [] Last(stack).op = "Epsilon" ->
                TraversalLoop(Front(stack), <<Num(0)>> \o ret_val, size)
           [] Last(stack).op = "Symbol" ->
                TraversalLoop(Front(stack), <<Num(1)>> \o ret_val, size)
           [] Last(stack).op = "Concat" ->
                TraversalLoop(Front(stack) \o <<Last(stack).right, Last(stack).left>>,
                              <<Plus>> \o ret_val, size)
           [] Last(stack).op = "Union" ->
                TraversalLoop(Front(stack) \o <<Last(stack).right, Last(stack).left>>,
                              <<Quest>> \o ret_val, size)
           [] Last(stack).op = "Star" ->
                TraversalLoop(Front(stack) \o <<Last(stack).regex>>,
                              IF size THEN <<Num(1)>> \o ret_val ELSE ret_val, size)

\* postorderTraversal(regex, size); "regex is Empty" compares with the class
\* and is false for every instance; lru_cache(maxsize=-1) keeps nothing
postorderTraversal(regex, size) == TraversalLoop(<<regex>>, <<>>, size)

\* solve_postorder / solve_postorderOmega: the for loop; right and left are
\* popped at the right end, the result is put at the left end
RECURSIVE SolveLoop(_, _)
SolveLoop(postorder, stack) ==
    IF postorder = <<>>
    THEN (IF Len(stack) = 0 THEN Return(0) ELSE Return(Last(stack)))
    ELSE IF "num" \in DOMAIN Head(postorder)
    THEN SolveLoop(Tail(postorder), Append(stack, Head(postorder).num))
    ELSE IF Len(stack) < 2 THEN IndexError
    ELSE IF Head(postorder) = Plus
    THEN SolveLoop(Tail(postorder),
                   <<Last(stack) + Last(Front(stack))>> \o Front(Front(stack)))
    ELSE SolveLoop(Tail(postorder),
                   <<IF Last(stack) > Last(Front(stack)) THEN Last(stack)
                     ELSE Last(Front(stack))>> \o Front(Front(stack)))

solve_postorder(postorder) == SolveLoop(postorder, <<>>)

\* determine_size counting the "+" and "?" entries only
RECURSIVE determine_size_OperatorsOnly(_)
determine_size_OperatorsOnly(dq) ==
    IF dq = <<>> THEN 0
    ELSE (IF "num" \in DOMAIN Head(dq) THEN 0 ELSE 1)
         + determine_size_OperatorsOnly(Tail(dq))

\* determine_size with "?" counting nothing
RECURSIVE determine_size_UnionFree(_)
determine_size_UnionFree(dq) ==
    IF dq = <<>> THEN 0
    ELSE (IF "num" \in DOMAIN Head(dq) THEN Head(dq).num
          ELSE IF Head(dq) = Quest THEN 0 ELSE 1)
         + determine_size_UnionFree(Tail(dq))

\* determine_size: "+" and "?" count 1, a number counts itself
RECURSIVE determine_size(_)
determine_size(dq) ==
    IF dq = <<>> THEN 0
    ELSE (IF "num" \in DOMAIN Head(dq) THEN Head(dq).num ELSE 1)
         + determine_size(Tail(dq))

regex_tllen(regex, size) ==
    IF size THEN Return(determine_size(postorderTraversal(regex, size)))
    ELSE solve_postorder(postorderTraversal(regex, size))

RECURSIVE regex_star_height(_)
regex_star_height(regex) ==
    CASE regex.op \in {"Epsilon", "Empty", "Symbol"} -> 0
      [] regex.op \in {"Concat", "Union"} ->
            IF regex_star_height(regex.left) > regex_star_height(regex.right)
            THEN regex_star_height(regex.left)
            ELSE regex_star_height(regex.right)
      [] regex.op = "Star" -> regex_star_height(regex.regex) + 1

\* the while loop of postorderTraversalOmega; no case matches OmegaEmpty;
\* regex_tllen of a Regex operand always returns (its deque is well formed)
RECURSIVE TraversalLoopOmega(_, _, _)
TraversalLoopOmega(stack, ret_val, size) ==
    IF stack = <<>> THEN ret_val
    ELSE CASE Last(stack).op = "OmegaEmpty" ->
                TraversalLoopOmega(Front(stack), ret_val, size)
           [] Last(stack).op = "Repeat" ->
                TraversalLoopOmega(
                    Front(stack),
                    <<Num(regex_tllen(Last(stack).regex, size).value)>>
                        \o (IF size THEN <<Num(1)>> \o ret_val ELSE ret_val),
                    size)
           [] Last(stack).op = "ConcatOmega" ->
                TraversalLoopOmega(
                    Front(stack) \o <<Last(stack).right>>,
                    <<Num(regex_tllen(Last(stack).left, size).value), Plus>> \o ret_val,
                    size)
           [] Last(stack).op = "UnionOmega" ->
                TraversalLoopOmega(
                    Front(stack) \o <<Last(stack).right, Last(stack).left>>,
                    <<Quest>> \o ret_val, size)

postorderTraversalOmega(regex, size) == TraversalLoopOmega(<<regex>>, <<>>, size)

\* solve_postorderOmega taking the maximum for "+" as it does for "?"
RECURSIVE SolveLoop_Max(_, _)
SolveLoop_Max(postorder, stack) ==
    IF postorder = <<>>
    THEN (IF Len(stack) = 0 THEN Return(0) ELSE Return(Last(stack)))
    ELSE IF "num" \in DOMAIN Head(postorder)
    THEN SolveLoop_Max(Tail(postorder), Append(stack, Head(postorder).num))
    ELSE IF Len(stack) < 2 THEN IndexError
    ELSE SolveLoop_Max(Tail(postorder),
                       <<IF Last(stack) > Last(Front(stack)) THEN Last(stack)
                         ELSE Last(Front(stack))>> \o Front(Front(stack)))

solve_postorderOmega_Max(postorder) == SolveLoop_Max(postorder, <<>>)

\* solve_postorderOmega: the same loop as solve_postorder
solve_postorderOmega(postorder) == SolveLoop(postorder, <<>>)

omega_regex_tllen(omega_regex, size) ==
    IF size THEN Return(determine_size(postorderTraversalOmega(omega_regex, size)))
    ELSE solve_postorderOmega(postorderTraversalOmega(omega_regex, size))

RECURSIVE omega_regex_star_height(_)
omega_regex_star_height(omega_regex) ==
    CASE omega_regex.op = "OmegaEmpty" -> 0
      [] omega_regex.op = "Repeat" -> regex_star_height(omega_regex.regex)
      [] omega_regex.op = "ConcatOmega" ->
            IF regex_star_height(omega_regex.left)
                  > omega_regex_star_height(omega_regex.right)
            THEN regex_star_height(omega_regex.left)
            ELSE omega_regex_star_height(omega_regex.right)
      [] omega_regex.op = "UnionOmega" ->
            IF omega_regex_star_height(omega_regex.left)
                  > omega_regex_star_height(omega_regex.right)
            THEN omega_regex_star_height(omega_regex.left)
            ELSE omega_regex_star_height(omega_regex.right)

\* whether x is an OmegaRegex object (else a Regex object)
IsOmega(x) == x.op \in {"OmegaEmpty", "Repeat", "ConcatOmega", "UnionOmega"}

\* x.__len__(), x.size() and x.star_height() of Regex and OmegaRegex
Len_(x) == IF IsOmega(x) THEN omega_regex_tllen(x, FALSE) ELSE regex_tllen(x, FALSE)

Size_(x) == IF IsOmega(x) THEN omega_regex_tllen(x, TRUE) ELSE regex_tllen(x, TRUE)

StarHeight_(x) ==
    IF IsOmega(x) THEN Return(omega_regex_star_height(x))
    ELSE Return(regex_star_height(x))

(* ---------------- the state machine ---------------- *)

\* initial state numbers of the imported automata
InitialStates == {0}

\* no measure has been called yet
NoMeasures == [len |-> None, size |-> None, star_height |-> None]

\* the graph after construction by the importer: tGraph(num_states, init)
Init ==
    /\ \E init \in InitialStates : g = tGraph(NumStates, init)
    /\ g0 = None
    /\ op = "init"
    /\ adds = 0
    /\ raised = FALSE
    /\ result = None
    /\ paths = <<>>
    /\ expr = None
    /\ measures = NoMeasures
    /\ run = None
    /\ args = None
    /\ memo = <<>>

\* a call g.add_edge(src, dst, Symbol(label), accepting), as the importer makes it
AddEdge ==
    /\ op \in {"init", "add_edge", "remove_edge", "combine_duplicate_edge"}
    /\ adds < MaxEdges
    /\ \E src \in States, dst \in States, label \in Labels, accepting \in BOOLEAN :
          g' = add_edge(g, src, dst, Symbol(label), accepting)
    /\ g0' = None
    /\ op' = "add_edge"
    /\ adds' = adds + 1
    /\ raised' = FALSE
    /\ UNCHANGED <<result, paths, expr, measures, run, args, memo>>

\* a call g.remove_edge(e.src, e.dst, e.label, e.accepting) for an edge e of
\* some out_edges list, the way combine_duplicate_edge calls it
RemoveEdge ==
    /\ op \in {"init", "add_edge", "remove_edge", "combine_duplicate_edge"}
    /\ \E v \in DOMAIN g.vertices :
         \E i \in 1 .. Len(g.vertices[v].out_edges) :
            \E e \in {g.vertices[v].out_edges[i]} :
               \E r \in {remove_edge(g, e.src, e.dst, e.label, e.accepting)} :
                  /\ g' = r.g
                  /\ raised' = r.raised
    /\ g0' = None
    /\ op' = "remove_edge"
    /\ UNCHANGED <<adds, result, paths, expr, measures, run, args, memo>>

\* a call combine_duplicate_edge(g)
CombineDuplicateEdge ==
    /\ op \in {"init", "add_edge", "remove_edge", "combine_duplicate_edge"}
    /\ \E r \in {combine_duplicate_edge(g)} :
          /\ g' = r.g
          /\ raised' = r.raised
    /\ g0' = g
    /\ op' = "combine_duplicate_edge"
    /\ UNCHANGED <<adds, result, paths, expr, measures, run, args, memo>>

\* a call taut_to_regex_bmc(g) on the imported graph
TautToRegexBmc ==
    /\ op \in {"init", "add_edge"}
    /\ \E r \in {taut_to_regex_bmc(g)} :
          /\ g' = r.g
          /\ raised' = r.raised
          /\ result' = r.result
          /\ paths' = r.paths
    /\ g0' = g
    /\ op' = "taut_to_regex_bmc"
    /\ UNCHANGED <<adds, expr, measures, run, args, memo>>

\* a call taut_to_regex_mny(g) on the imported graph
TautToRegexMny ==
    /\ op \in {"init", "add_edge"}
    /\ \E r \in {taut_to_regex_mny(g)} :
          /\ g' = r.g
          /\ raised' = r.raised
          /\ result' = r.result
          /\ paths' = r.paths
    /\ g0' = g
    /\ op' = "taut_to_regex_mny"
    /\ UNCHANGED <<adds, expr, measures, run, args, memo>>

\* the importer's add_edge calls, then one lasso driver
Next == AddEdge \/ TautToRegexBmc \/ TautToRegexMny

Spec == Init /\ [][Next]_vars

\* add_edge and combine_duplicate_edge
NextCombine == AddEdge \/ CombineDuplicateEdge

SpecCombine == Init /\ [][NextCombine]_vars

\* add_edge and remove_edge only
NextEdges == AddEdge \/ RemoveEdge

SpecEdges == Init /\ [][NextEdges]_vars

\* add_edge, remove_edge and combine_duplicate_edge
NextGraph == AddEdge \/ RemoveEdge \/ CombineDuplicateEdge

SpecGraph == Init /\ [][NextGraph]_vars

\* the Regex objects of exactly n nodes over Symbol("a"), Epsilon and Empty
RECURSIVE ExprsOfSize(_)
ExprsOfSize(n) ==
    IF n = 1 THEN {Symbol("a"), Epsilon, Empty}
    ELSE {Star(x) : x \in ExprsOfSize(n - 1)}
         \cup UNION {UNION {{Concat(l, r), Union(l, r)} :
                              l \in ExprsOfSize(k), r \in ExprsOfSize(n - 1 - k)} :
                     k \in 1 .. (n - 2)}

Exprs == UNION {ExprsOfSize(n) : n \in 1 .. MaxNodes}

InnerExprs == UNION {ExprsOfSize(n) : n \in 1 .. MaxInnerNodes}

\* the OmegaRegex objects of exactly n omega nodes over the inner Regex objects
RECURSIVE OmegaExprsOfSize(_)
OmegaExprsOfSize(n) ==
    IF n = 1 THEN {OmegaEmpty} \cup {Repeat(x) : x \in InnerExprs}
    ELSE {ConcatOmega(l, r) : l \in InnerExprs, r \in OmegaExprsOfSize(n - 1)}
         \cup UNION {{UnionOmega(l, r) :
                        l \in OmegaExprsOfSize(k), r \in OmegaExprsOfSize(n - k)} :
                     k \in 1 .. (n - 1)}

OmegaExprs == UNION {OmegaExprsOfSize(n) : n \in 1 .. MaxOmegaNodes}

\* a Regex or OmegaRegex object has been constructed
InitMeasure ==
    /\ \E init \in InitialStates : g = tGraph(NumStates, init)
    /\ g0 = None
    /\ op = "init"
    /\ adds = 0
    /\ raised = FALSE
    /\ result = None
    /\ paths = <<>>
    /\ expr \in Exprs \cup OmegaExprs
    /\ measures = NoMeasures
    /\ run = None
    /\ args = None
    /\ memo = <<>>

\* a call len(expr)
CallLen ==
    /\ expr # None
    /\ measures.len = None
    /\ measures' = [measures EXCEPT !.len = Len_(expr)]
    /\ UNCHANGED <<g, g0, op, adds, raised, result, paths, expr, run, args, memo>>

\* a call expr.size()
CallSize ==
    /\ expr # None
    /\ measures.size = None
    /\ measures' = [measures EXCEPT !.size = Size_(expr)]
    /\ UNCHANGED <<g, g0, op, adds, raised, result, paths, expr, run, args, memo>>

\* a call expr.star_height()
CallStarHeight ==
    /\ expr # None
    /\ measures.star_height = None
    /\ measures' = [measures EXCEPT !.star_height = StarHeight_(expr)]
    /\ UNCHANGED <<g, g0, op, adds, raised, result, paths, expr, run, args, memo>>

\* the three measures of an expression, called in any order
NextMeasure == CallLen \/ CallSize \/ CallStarHeight

SpecMeasure == InitMeasure /\ [][NextMeasure]_vars

\* the label of the edge that leaves state src of the three-state ring
\* automaton: a from 0, b from 1, c from 2
RingLabel(src) == IF src = 0 THEN "a" ELSE IF src = 1 THEN "b" ELSE "c"

\* a call g.add_edge(src, src + 1 mod 3, Symbol(label), accepting) of the
\* importer for an edge of the ring automaton not yet added
AddRingEdge ==
    /\ op \in {"init", "add_edge"}
    /\ \E src \in States, accepting \in BOOLEAN :
          /\ g.vertices[src].out_edges = <<>>
          /\ g' = add_edge(g, src, (src + 1) % NumStates,
                           Symbol(RingLabel(src)), accepting)
    /\ g0' = None
    /\ op' = "add_edge"
    /\ adds' = adds + 1
    /\ raised' = FALSE
    /\ UNCHANGED <<result, paths, expr, measures, run, args, memo>>

\* the caller keeps the expression a lasso driver returned
TakeResult ==
    /\ op \in {"taut_to_regex_bmc", "taut_to_regex_mny"}
    /\ ~raised
    /\ expr = None
    /\ expr' = result
    /\ UNCHANGED <<g, g0, op, adds, raised, result, paths, measures, run, args, memo>>

\* the ring automaton is imported, a lasso driver runs, the result is measured
NextRing ==
    \/ AddRingEdge
    \/ TautToRegexBmc
    \/ TautToRegexMny
    \/ TakeResult
    \/ CallLen
    \/ CallSize
    \/ CallStarHeight

SpecRing == Init /\ [][NextRing]_vars

\* a second call taut_to_regex_bmc(g) on the graph object the first call of
\* taut_to_regex_bmc was given, after its result was kept
TautToRegexBmcAgain ==
    /\ op = "taut_to_regex_bmc"
    /\ expr # None
    /\ \E r \in {taut_to_regex_bmc(g)} :
          /\ g' = r.g
          /\ raised' = r.raised
          /\ result' = r.result
          /\ paths' = r.paths
    /\ g0' = g
    /\ op' = "taut_to_regex_bmc again"
    /\ UNCHANGED <<adds, expr, measures, run, args, memo>>

\* a second call taut_to_regex_mny(g) on the graph object the first call of
\* taut_to_regex_mny was given, after its result was kept
TautToRegexMnyAgain ==
    /\ op = "taut_to_regex_mny"
    /\ expr # None
    /\ \E r \in {taut_to_regex_mny(g)} :
          /\ g' = r.g
          /\ raised' = r.raised
          /\ result' = r.result
          /\ paths' = r.paths
    /\ g0' = g
    /\ op' = "taut_to_regex_mny again"
    /\ UNCHANGED <<adds, expr, measures, run, args, memo>>

\* the importer's add_edge calls, then the same lasso driver twice
NextTwice ==
    \/ AddEdge
    \/ TautToRegexBmc
    \/ TautToRegexMny
    \/ TakeResult
    \/ TautToRegexBmcAgain
    \/ TautToRegexMnyAgain

SpecTwice == Init /\ [][NextTwice]_vars

(* ---------------- regex_methods.py: the solvers ---------------- *)

\* the default of the aut_timeout, regex_timeout and simplify_timeout
\* parameters of a solver
aut_timeout == 30
regex_timeout == 30
simplify_timeout == 30

\* the solvers of the method table of get_solver
Solvers ==
    {"simplify_state_direct_solver", "state_direct_solver",
     "transition_bmc_original_solver", "transition_bmc_original2_solver",
     "simplify_transition_bmc_original2_solver",
     "simplify_transition_bmc_original_solver",
     "transition_mny_original_solver", "simplify_transition_mny_original_solver",
     "transition_bmc_only_transition_solver",
     "simplify_transition_bmc_only_transition_solver",
     "transition_mny_only_transition_solver",
     "simplify_transition_mny_only_transition_solver",
     "transition_bmc_only_state_solver", "simplify_transition_bmc_only_state_solver",
     "transition_mny_only_state_solver", "simplify_transition_mny_only_state_solver"}

\* the function the automaton stage of a solver calls
AutomatonFn(solver) ==
    CASE solver \in {"simplify_state_direct_solver", "state_direct_solver"} ->
            "ltl_to_aut"
      [] solver \in {"transition_bmc_original_solver",
                     "simplify_transition_bmc_original_solver",
                     "transition_mny_original_solver",
                     "simplify_transition_mny_original_solver"} ->
            "transition_or_state_aut"
      [] solver \in {"transition_bmc_original2_solver",
                     "simplify_transition_bmc_original2_solver"} ->
            "transition_or_state_converted_aut"
      [] solver \in {"transition_bmc_only_transition_solver",
                     "simplify_transition_bmc_only_transition_solver",
                     "transition_mny_only_transition_solver",
                     "simplify_transition_mny_only_transition_solver"} ->
            "ltl_to_transition_aut"
      [] OTHER -> "ltl_transition_to_state_aut"

\* the solvers that have a simplify stage
Simplifying ==
    {"simplify_state_direct_solver", "simplify_transition_bmc_original2_solver",
     "simplify_transition_bmc_original_solver",
     "simplify_transition_mny_original_solver",
     "simplify_transition_bmc_only_transition_solver",
     "simplify_transition_mny_only_transition_solver",
     "simplify_transition_bmc_only_state_solver",
     "simplify_transition_mny_only_state_solver"}

\* the elapsed seconds a stage measures
Times == 1 .. MaxTime

\* the graphs the translator and aut_to_tgraph return for one formula, by the
\* shape requested: their number of vertices and their final states
Automata(shape) ==
    UNION {{[shape |-> shape, num_states |-> n, final_states |-> F] :
               F \in SUBSET (0 .. (n - 1))} : n \in 1 .. MaxAutStates}

\* what run_with_timeout returns for ltl_to_aut, ltl_to_transition_aut or
\* ltl_transition_to_state_aut: None, or the pair (graph, elapsed time)
StageResults(shape) ==
    {None} \cup {[automaton |-> aut, aut_time |-> t] :
                    aut \in Automata(shape), t \in Times}

\* what run_with_timeout returns for a lasso driver or for simplify: None on
\* a timeout or an exception, else the expression
RegexResults == {None, OmegaEmpty, Repeat(Symbol("a"))}

num_accepting_states(aut) == Cardinality(aut.final_states)

num_states(aut) == aut.num_states

\* transition_or_state_aut choosing the automaton with more accepting states
transition_or_state_aut_MoreAccepting(result_transition, result_state) ==
    IF result_transition = None /\ result_state = None
    THEN [automaton |-> None, aut_time |-> aut_timeout]
    ELSE IF result_transition = None THEN result_state
    ELSE IF result_state = None THEN result_transition
    ELSE IF \/ num_accepting_states(result_state.automaton)
                  < num_accepting_states(result_transition.automaton)
            \/ /\ num_accepting_states(result_state.automaton)
                     = num_accepting_states(result_transition.automaton)
               /\ num_states(result_transition.automaton)
                     < num_states(result_state.automaton)
    THEN result_transition
    ELSE result_state

\* transition_or_state_aut, given what its two run_with_timeout calls returned
transition_or_state_aut(result_transition, result_state) ==
    IF result_transition = None /\ result_state = None
    THEN [automaton |-> None, aut_time |-> aut_timeout]
    ELSE IF result_transition = None THEN result_state
    ELSE IF result_state = None THEN result_transition
    ELSE IF \/ num_accepting_states(result_state.automaton)
                  > num_accepting_states(result_transition.automaton)
            \/ /\ num_accepting_states(result_state.automaton)
                     = num_accepting_states(result_transition.automaton)
               /\ num_states(result_transition.automaton)
                     < num_states(result_state.automaton)
    THEN result_transition
    ELSE result_state

\* transition_or_state_converted_aut, given what its two run_with_timeout
\* calls returned
transition_or_state_converted_aut(result_transition, result_state) ==
    IF result_transition = None /\ result_state = None
    THEN [automaton |-> None, aut_time |-> aut_timeout]
    ELSE IF result_transition = None THEN result_state
    ELSE IF result_state = None THEN result_transition
    ELSE IF \/ num_accepting_states(result_state.automaton)
                  > num_accepting_states(result_transition.automaton)
            \/ /\ num_accepting_states(result_state.automaton)
                     = num_accepting_states(result_transition.automaton)
               /\ num_states(result_transition.automaton)
                     < num_states(result_state.automaton)
    THEN result_transition
    ELSE result_state

\* the automaton and the time the automaton stage of a solver goes on with
AutomatonOutcome(solver, result_transition, result_state) ==
    CASE AutomatonFn(solver) = "transition_or_state_aut" ->
            transition_or_state_aut(result_transition, result_state)
      [] AutomatonFn(solver) = "transition_or_state_converted_aut" ->
            transition_or_state_converted_aut(result_transition, result_state)
      [] AutomatonFn(solver) = "ltl_to_transition_aut" ->
            IF result_transition = None
            THEN [automaton |-> None, aut_time |-> aut_timeout]
            ELSE result_transition
      [] OTHER ->
            IF result_state = None
            THEN [automaton |-> None, aut_time |-> aut_timeout]
            ELSE result_state

\* a solver that continues with the next stage whatever the stage returned
StageAfter_NoShortCircuit(stage, returned, solver) ==
    IF stage = "automaton" THEN "regex"
    ELSE IF stage = "regex" /\ solver \in Simplifying THEN "simplify"
    ELSE "done"

\* where a solver continues after a stage returned: at its return statement
\* if the stage returned None, else at the next stage it has
StageAfter(stage, returned, solver) ==
    IF returned = None THEN "done"
    ELSE IF stage = "automaton" THEN "regex"
    ELSE IF stage = "regex" /\ solver \in Simplifying THEN "simplify"
    ELSE "done"

\* the timings a solver returns when its regex stage returned None
RegexFailTimings(solver, aut_time) ==
    IF solver \in {"simplify_transition_bmc_only_transition_solver",
                   "simplify_transition_mny_only_state_solver"}
    THEN <<aut_time, regex_timeout, -1, -1>>
    ELSE <<aut_time, regex_timeout, -1>>

\* the timings a solver returns when its simplify stage returned None
SimplifyFailTimings(solver, aut_time, regex_const_time) ==
    IF solver = "simplify_transition_bmc_only_transition_solver"
    THEN <<aut_time, regex_const_time, simplify_timeout, -1>>
    ELSE <<aut_time, regex_const_time, simplify_timeout>>

\* the timings a solver returns with its expression
SuccessTimings(solver, aut_time, regex_const_time, simplify_time) ==
    IF solver = "simplify_transition_bmc_only_transition_solver"
    THEN <<aut_time, regex_const_time, simplify_time, 0>>
    ELSE IF solver \in Simplifying
    THEN <<aut_time, regex_const_time, simplify_time>>
    ELSE <<aut_time, regex_const_time, 0>>

\* a solver has been called: no stage started yet
SolverCalled(solver) ==
    [solver |-> solver, pc |-> "automaton", started |-> <<>>,
     result_transition |-> None, result_state |-> None,
     automaton |-> None, aut_time |-> 0,
     regex |-> None, regex_const_time |-> 0, simplified |-> None,
     ret |-> None]

\* the solver after its automaton stage
AfterAutomaton(r, result_transition, result_state, out) ==
    [r EXCEPT !.started = Append(@, "automaton"),
              !.result_transition = result_transition,
              !.result_state = result_state,
              !.automaton = out.automaton,
              !.aut_time = out.aut_time,
              !.pc = StageAfter("automaton", out.automaton, r.solver),
              !.ret = IF out.automaton = None
                      THEN [regex |-> None, timings |-> <<out.aut_time, -1, -1>>]
                      ELSE None]

\* the solver after its regex stage
AfterRegex(r, res, t) ==
    [r EXCEPT !.started = Append(@, "regex"),
              !.regex = res,
              !.regex_const_time = IF res = None THEN @ ELSE t,
              !.pc = StageAfter("regex", res, r.solver),
              !.ret = IF res = None
                      THEN [regex |-> None,
                            timings |-> RegexFailTimings(r.solver, r.aut_time)]
                      ELSE IF r.solver \in Simplifying THEN None
                      ELSE [regex |-> res,
                            timings |-> SuccessTimings(r.solver, r.aut_time, t, 0)]]

\* the solver after its simplify stage
AfterSimplify(r, res, t) ==
    [r EXCEPT !.started = Append(@, "simplify"),
              !.simplified = res,
              !.pc = StageAfter("simplify", res, r.solver),
              !.ret = IF res = None
                      THEN [regex |-> None,
                            timings |-> SimplifyFailTimings(r.solver, r.aut_time,
                                                            r.regex_const_time)]
                      ELSE [regex |-> res,
                            timings |-> SuccessTimings(r.solver, r.aut_time,
                                                       r.regex_const_time, t)]]

\* a solver of the method table has been called on a formula
InitSolver ==
    /\ \E init \in InitialStates : g = tGraph(NumStates, init)
    /\ g0 = None
    /\ op = "init"
    /\ adds = 0
    /\ raised = FALSE
    /\ result = None
    /\ paths = <<>>
    /\ expr = None
    /\ measures = NoMeasures
    /\ run \in {SolverCalled(solver) : solver \in Solvers}
    /\ args = None
    /\ memo = <<>>

\* the automaton stage: the run_with_timeout calls on the translator, and the
\* selection of transition_or_state_aut / transition_or_state_converted_aut
AutomatonStage ==
    /\ run # None
    /\ run.pc = "automaton"
    /\ \E result_transition \in
             IF AutomatonFn(run.solver)
                   \in {"ltl_to_aut", "ltl_transition_to_state_aut"}
             THEN {None} ELSE StageResults("transition"),
          result_state \in
             IF AutomatonFn(run.solver) = "ltl_to_transition_aut"
             THEN {None} ELSE StageResults("state") :
          run' = AfterAutomaton(run, result_transition, result_state,
                                AutomatonOutcome(run.solver, result_transition,
                                                 result_state))
    /\ UNCHANGED <<g, g0, op, adds, raised, result, paths, expr, measures, args, memo>>

\* the regex stage: run_with_timeout on taut_to_regex_bmc or taut_to_regex_mny
RegexStage ==
    /\ run # None
    /\ run.pc = "regex"
    /\ \E res \in RegexResults, t \in Times : run' = AfterRegex(run, res, t)
    /\ UNCHANGED <<g, g0, op, adds, raised, result, paths, expr, measures, args, memo>>

\* the simplify stage: run_with_timeout on simplify
SimplifyStage ==
    /\ run # None
    /\ run.pc = "simplify"
    /\ \E res \in RegexResults, t \in Times : run' = AfterSimplify(run, res, t)
    /\ UNCHANGED <<g, g0, op, adds, raised, result, paths, expr, measures, args, memo>>

\* the stages of one solver call
NextSolver == AutomatonStage \/ RegexStage \/ SimplifyStage

SpecSolver == InitSolver /\ [][NextSolver]_vars

(* ---------------- transition_graph_pipeline.py: the importer ---------- *)

\* the assert of aut_to_tgraph failed
AssertionError == [op |-> "AssertionError"]

\* an edge t of a translator automaton: t.src, t.dst, the formula string of
\* t.cond and the acceptance sets t.acc
AutEdges(n, ns) ==
    [src : 0 .. (n - 1), dst : 0 .. (n - 1),
     cond : Labels, acc : SUBSET (0 .. (ns - 1))]

\* the automata given to the importer: aut.num_sets(), aut.num_states(),
\* aut.get_init_state_number() and aut.edges()
Automatons ==
    UNION {UNION {UNION {{[num_sets |-> ns, num_states |-> n, init |-> 0,
                           edges |-> es] :
                             es \in [1 .. k -> AutEdges(n, ns)]} :
                         k \in 0 .. MaxAutEdges} :
                  n \in 1 .. MaxAutStates} :
           ns \in 0 .. MaxSets}

\* lines 10-12: for t in aut.edges(): graph.add_edge(...)
RECURSIVE AddAutEdges(_, _)
AddAutEdges(graph, edges) ==
    IF edges = <<>> THEN graph
    ELSE AddAutEdges(add_edge(graph, Head(edges).src, Head(edges).dst,
                              Symbol(Head(edges).cond), 0 \in Head(edges).acc),
                     Tail(edges))

\* aut_to_tgraph without its assert
aut_to_tgraph_NoAssert(aut) ==
    [graph |-> AddAutEdges(tGraph(aut.num_states, aut.init), aut.edges),
     raised |-> FALSE]

\* aut_to_tgraph(aut): the graph returned, or no graph when the assert fails
aut_to_tgraph(aut) ==
    IF aut.num_sets # 1 THEN [graph |-> None, raised |-> TRUE]
    ELSE [graph |-> AddAutEdges(tGraph(aut.num_states, aut.init), aut.edges),
          raised |-> FALSE]

\* the translator has returned an automaton; no graph exists yet
InitImport ==
    /\ g = None
    /\ g0 = None
    /\ op = "init"
    /\ adds = 0
    /\ raised = FALSE
    /\ result = None
    /\ paths = <<>>
    /\ expr = None
    /\ measures = NoMeasures
    /\ run = None
    /\ args \in Automatons
    /\ memo = <<>>

\* a call aut_to_tgraph(aut)
AutToTgraph ==
    /\ op = "init"
    /\ \E r \in {aut_to_tgraph(args)} :
          /\ g' = r.graph
          /\ raised' = r.raised
          /\ result' = IF r.raised THEN AssertionError ELSE r.graph
    /\ op' = "aut_to_tgraph"
    /\ UNCHANGED <<g0, adds, paths, expr, measures, run, args, memo>>

NextImport == AutToTgraph

SpecImport == InitImport /\ [][NextImport]_vars

(* ---------------- calls of mcnaughton_yamada on one graph ------------- *)

Modes == {"None", "True", "False"}

\* g.add_edge(src, dst, Symbol(label), accepting) while the graph is built
AddMnyEdge ==
    /\ op \in {"init", "add_edge"}
    /\ adds < MaxMnyEdges
    /\ \E src \in States, dst \in States, label \in Labels,
          accepting \in BOOLEAN :
          g' = add_edge(g, src, dst, Symbol(label), accepting)
    /\ adds' = adds + 1
    /\ op' = "add_edge"
    /\ UNCHANGED <<g0, raised, result, paths, expr, measures, run, args, memo>>

\* a call mcnaughton_yamada(g, i, j, acc); args also keeps the mode of the
\* call made before it
McNaughtonYamada ==
    /\ \/ op \in {"init", "add_edge"}
       \/ op = "mcnaughton_yamada" /\ args.calls < MaxCalls
    /\ \E i \in States, j \in States, acc \in Modes :
          /\ \E r \in {mcnaughton_yamada_cached(g, i, j, acc,
                                                MemoAtCall(memo))} :
                /\ result' = r.val
                /\ memo' = r.memo
          /\ args' = [i |-> i, j |-> j, acc |-> acc,
                      before |-> IF op = "mcnaughton_yamada"
                                 THEN args.acc ELSE "no call",
                      calls |-> IF op = "mcnaughton_yamada"
                                THEN args.calls + 1 ELSE 1]
    /\ op' = "mcnaughton_yamada"
    /\ UNCHANGED <<g, g0, adds, raised, paths, expr, measures, run>>

NextMny == AddMnyEdge \/ McNaughtonYamada

SpecMny == Init /\ [][NextMny]_vars

\* one call mcnaughton_yamada(g, i, j, acc) on a graph built by AddPathEdge
McNaughtonYamadaOnce ==
    /\ op \in {"init", "add_edge"}
    /\ \E i \in States, j \in States, acc \in Modes :
          /\ \E r \in {mcnaughton_yamada_cached(g, i, j, acc,
                                                MemoAtCall(memo))} :
                /\ result' = r.val
                /\ memo' = r.memo
          /\ args' = [i |-> i, j |-> j, acc |-> acc,
                      before |-> "no call", calls |-> 1]
    /\ op' = "mcnaughton_yamada"
    /\ UNCHANGED <<g, g0, adds, raised, paths, expr, measures, run>>

(* ---------------- rip called on a graph ------------------------------- *)

\* the label of the k-th edge added to a graph given to rip
RipLabel(k) == IF k % 2 = 1 THEN "a" ELSE "b"

\* g.add_edge(src, dst, Symbol(label), accepting) while the graph is built
AddRipEdge ==
    /\ op \in {"init", "add_edge"}
    /\ adds < MaxRipEdges
    /\ \E src \in States, dst \in States, accepting \in BOOLEAN :
          g' = add_edge(g, src, dst, Symbol(RipLabel(adds + 1)), accepting)
    /\ adds' = adds + 1
    /\ op' = "add_edge"
    /\ UNCHANGED <<g0, raised, result, paths, expr, measures, run, args, memo>>

\* a call rip(g, v_rip); g0 keeps the graph as it was before the call
Rip ==
    /\ op \in {"init", "add_edge"}
    /\ \E v_rip \in DOMAIN g.vertices :
          /\ \E r \in {rip(g, v_rip)} :
                /\ g' = r.g
                /\ raised' = r.raised
          /\ args' = [v_rip |-> v_rip]
    /\ g0' = g
    /\ op' = "rip"
    /\ UNCHANGED <<adds, result, paths, expr, measures, run, memo>>

NextRip == AddRipEdge \/ Rip

SpecRip == Init /\ [][NextRip]_vars

(* ---------------- the path queries called on a graph ------------------ *)

PathFns == {"find_path", "find_accpath", "find_nonaccpath"}

\* the labels the k-th edge of a graph given to a path query is drawn from:
\* the queries treat all symbols alike, so the first edge is labelled a
PathLabels(k) == IF k = 1 THEN {"a"} ELSE Labels

\* g.add_edge(src, dst, Symbol(label), accepting) while the graph is built
AddPathEdge ==
    /\ op \in {"init", "add_edge"}
    /\ adds < MaxEdges
    /\ \E src \in States, dst \in States, label \in PathLabels(adds + 1),
          accepting \in BOOLEAN :
          g' = add_edge(g, src, dst, Symbol(label), accepting)
    /\ adds' = adds + 1
    /\ op' = "add_edge"
    /\ UNCHANGED <<g0, raised, result, paths, expr, measures, run, args, memo>>

\* the states the elimination loop rips, in the order it rips them
RECURSIVE RipOrder(_, _, _)
\* c is the outcome of combine_duplicate_edge after the rip
RipOrderCombined(c, v_start, v_end) ==
    IF c.raised THEN <<>> ELSE RipOrder(c.g, v_start, v_end)

\* r is the outcome of rip(g, v_rip)
RipOrderRipped(r, v_start, v_end) ==
    IF r.raised THEN <<>>
    ELSE RipOrderCombined(combine_duplicate_edge(r.g), v_start, v_end)

RipOrderAt(gr, v_start, v_end, v_rip) ==
    IF v_rip = -1 THEN <<>>
    ELSE <<v_rip>> \o RipOrderRipped(rip(gr, v_rip), v_start, v_end)

RipOrder(gr, v_start, v_end) ==
    RipOrderAt(gr, v_start, v_end, find_rip_vertex(gr, v_start, v_end))

\* the lines after the loop of the query fn; rl is the outcome of the loop
PathFinal(fn, rl, v_start, v_end) ==
    IF fn = "find_path" THEN FindPathFinal(rl, v_start, v_end)
    ELSE IF fn = "find_accpath" THEN FindAccPathFinal(rl, v_start, v_end)
    ELSE FindNonAccPathFinal(rl, v_start, v_end)

\* a call fn(g, v_start, v_end) of a path query: g is left alone; g0 keeps
\* the deep copy as the elimination loop left it, raised whether the loop raised
FindPaths ==
    /\ op \in {"init", "add_edge"}
    /\ \E fn \in PathFns, v_start \in States, v_end \in States :
          /\ \E rl \in {RipLoop(g, v_start, v_end)} :
                /\ g0' = rl.g
                /\ raised' = rl.raised
                /\ result' = PathFinal(fn, rl, v_start, v_end)
          /\ args' = [fn |-> fn, v_start |-> v_start, v_end |-> v_end,
                      ripped |-> RipOrder(g, v_start, v_end)]
          /\ op' = fn
    /\ UNCHANGED <<g, adds, paths, expr, measures, run, memo>>

NextPaths == AddPathEdge \/ FindPaths

SpecPaths == Init /\ [][NextPaths]_vars

\* single calls of mcnaughton_yamada on the same graphs
NextRec == AddPathEdge \/ McNaughtonYamadaOnce

SpecRec == Init /\ [][NextRec]_vars

(* ---------------- regex_methods.py: run_with_timeout ------------------ *)

\* what func(*args) does in the worker: return a value, return None, raise an
\* Exception, or end the process without returning (SystemExit, a crash)
FuncOutcomes == {"returns", "returns None", "raises", "exits"}

\* run_with_timeout(func, args, timeout) has been called: run holds the
\* caller's position (pc), the worker process, the manager dict, the clock,
\* whether join(timeout) expired, whether terminate() was called and whether
\* it ended the worker, and the value returned
InitTimeout ==
    /\ g = None
    /\ g0 = None
    /\ op = "run_with_timeout"
    /\ adds = 0
    /\ raised = FALSE
    /\ result = None
    /\ paths = <<>>
    /\ expr = None
    /\ measures = NoMeasures
    /\ memo = <<>>
    /\ args \in [func : FuncOutcomes, timeout : 1 .. MaxTimeout]
    /\ run = [pc |-> "start", worker |-> "not started", return_dict |-> <<>>,
              now |-> 0, timed_out |-> FALSE, terminate |-> FALSE,
              killed |-> FALSE, value |-> "not returned"]

UnchangedButRun ==
    UNCHANGED <<g, g0, op, adds, raised, result, paths, expr, measures, args, memo>>

\* time passes while the caller waits; the clock starts with the worker
Tick ==
    /\ run.pc \notin {"start", "returned"}
    /\ run.now < MaxClock
    /\ run' = [run EXCEPT !.now = @ + 1]
    /\ UnchangedButRun

\* lines 22-23: process = Process(target=worker, ...); process.start()
ProcessStart ==
    /\ run.pc = "start"
    /\ run' = [run EXCEPT !.pc = "join", !.worker = "running"]
    /\ UnchangedButRun

\* worker, lines 11-15: func returned or raised an Exception, and the worker
\* has written 'result' or 'error' to the manager dict
WorkerStores ==
    /\ run.worker = "running"
    /\ args.func \in {"returns", "returns None", "raises"}
    /\ run' = [run EXCEPT
                 !.worker = "stored",
                 !.return_dict =
                     IF args.func = "raises" THEN [error |-> "message"]
                     ELSE IF args.func = "returns" THEN [result |-> "value"]
                     ELSE [result |-> "None"]]
    /\ UnchangedButRun

\* the worker process ends by itself: after worker() returned, or inside
\* func without reaching either assignment
WorkerExits ==
    /\ \/ run.worker = "stored"
       \/ run.worker = "running" /\ args.func = "exits"
    /\ run' = [run EXCEPT !.worker = "dead"]
    /\ UnchangedButRun

\* line 24: process.join(timeout) returns when the worker has ended or when
\* timeout seconds have passed
Join ==
    /\ run.pc = "join"
    /\ \/ run.worker = "dead" /\ run' = [run EXCEPT !.pc = "is_alive"]
       \/ /\ run.worker # "dead"
          /\ run.now >= args.timeout
          /\ run' = [run EXCEPT !.pc = "is_alive", !.timed_out = TRUE]
    /\ UnchangedButRun

\* line 26: if process.is_alive():
IsAlive ==
    /\ run.pc = "is_alive"
    /\ run' = [run EXCEPT !.pc = IF run.worker # "dead" THEN "terminate"
                                 ELSE "check"]
    /\ UnchangedButRun

\* line 27: process.terminate() sends SIGTERM to the worker
Terminate ==
    /\ run.pc = "terminate"
    /\ run' = [run EXCEPT !.pc = "join after terminate", !.terminate = TRUE]
    /\ UnchangedButRun

\* the signal ends the worker
WorkerKilled ==
    /\ run.terminate
    /\ run.worker # "dead"
    /\ run' = [run EXCEPT !.worker = "dead", !.killed = TRUE]
    /\ UnchangedButRun

\* lines 28-30: process.join(); return None
JoinTerminated ==
    /\ run.pc = "join after terminate"
    /\ run.worker = "dead"
    /\ run' = [run EXCEPT !.pc = "returned", !.value = "None"]
    /\ UnchangedButRun

\* lines 32-36: None if 'error' in return_dict, else return_dict.get('result', None)
ReadResult ==
    /\ run.pc = "check"
    /\ run' = [run EXCEPT
                 !.pc = "returned",
                 !.value = IF "error" \in DOMAIN run.return_dict THEN "None"
                           ELSE IF "result" \in DOMAIN run.return_dict
                           THEN run.return_dict.result
                           ELSE "None"]
    /\ UnchangedButRun

NextTimeout ==
    \/ Tick
    \/ ProcessStart
    \/ WorkerStores
    \/ WorkerExits
    \/ Join
    \/ IsAlive
    \/ Terminate
    \/ WorkerKilled
    \/ JoinTerminated
    \/ ReadResult

SpecTimeout == InitTimeout /\ [][NextTimeout]_vars

(* ---------------- find_path between two of four states --------------- *)

\* g = tGraph(NumEndStates, 0): find_path between two different states
\* then goes through the elimination loop twice
InitEnd ==
    /\ g = tGraph(NumEndStates, 0)
    /\ g0 = None
    /\ op = "init"
    /\ adds = 0
    /\ raised = FALSE
    /\ result = None
    /\ paths = <<>>
    /\ expr = None
    /\ measures = NoMeasures
    /\ run = None
    /\ args = None
    /\ memo = <<>>

\* g.add_edge(src, dst, Symbol(label), accepting) while the graph is built
AddEndEdge ==
    /\ op \in {"init", "add_edge"}
    /\ adds < MaxEdges
    /\ \E src \in DOMAIN g.vertices, dst \in DOMAIN g.vertices,
          accepting \in BOOLEAN :
          g' = add_edge(g, src, dst, Symbol(RipLabel(adds + 1)), accepting)
    /\ adds' = adds + 1
    /\ op' = "add_edge"
    /\ UNCHANGED <<g0, raised, result, paths, expr, measures, run, args, memo>>

\* a call find_path(g, v_start, v_end) with v_start # v_end; g0 keeps the
\* deep copy as the elimination loop left it
FindPath ==
    /\ op \in {"init", "add_edge"}
    /\ \E v_start \in DOMAIN g.vertices :
          \E v_end \in (DOMAIN g.vertices) \ {v_start} :
             /\ \E rl \in {RipLoop(g, v_start, v_end)} :
                   /\ g0' = rl.g
                   /\ raised' = rl.raised
                   /\ result' = FindPathFinal(rl, v_start, v_end)
             /\ args' = [fn |-> "find_path", v_start |-> v_start,
                         v_end |-> v_end,
                         ripped |-> RipOrder(g, v_start, v_end)]
    /\ op' = "find_path"
    /\ UNCHANGED <<g, adds, paths, expr, measures, run, memo>>

NextEnd == AddEndEdge \/ FindPath

SpecEnd == InitEnd /\ [][NextEnd]_vars

(* ---------------- omega-languages, on ultimately periodic words -------- *)

\* the words u.v^omega tested: u and v over the labels, v not empty
SeqsUpTo(n) == UNION {[1 .. k -> Labels] : k \in 0 .. n}

Words == {w \in [u : SeqsUpTo(MaxPrefix), v : SeqsUpTo(MaxPeriod)] : w.v # <<>>}

\* u.v^omega as a lasso of positions 1 .. Len(u) + Len(v)
Positions(w) == 1 .. (Len(w.u) + Len(w.v))

Letter(w, p) == IF p <= Len(w.u) THEN w.u[p] ELSE w.v[p - Len(w.u)]

NextPos(w, p) == IF p < Len(w.u) + Len(w.v) THEN p + 1 ELSE Len(w.u) + 1

\* relational composition and transitive closure (paths of at most k + 1 steps)
Compose(A, B) == {<<q[1][1], q[2][2]>> : q \in {x \in A \X B : x[1][2] = x[2][1]}}

RECURSIVE Closure(_, _)
Closure(A, k) ==
    IF k = 0 THEN A
    ELSE LET C == Closure(A, k - 1) IN C \cup Compose(C, A)

\* whether the expression denotes the empty word
RECURSIVE Nullable(_)
Nullable(e) ==
    CASE e.op = "Symbol" -> FALSE
      [] e.op = "Concat" -> Nullable(e.left) /\ Nullable(e.right)
      [] e.op = "Union" -> Nullable(e.left) \/ Nullable(e.right)
      [] e.op = "Star" -> TRUE

\* the pairs <<p, q>> such that e denotes a non-empty factor of w from
\* position p to position q
RECURSIVE Factors(_, _)
Factors(e, w) ==
    CASE e.op = "Symbol" ->
            {<<p, NextPos(w, p)>> : p \in {x \in Positions(w) : Letter(w, x) = e.symbol}}
      [] e.op = "Concat" ->
            Compose(Factors(e.left, w), Factors(e.right, w))
            \cup (IF Nullable(e.left) THEN Factors(e.right, w) ELSE {})
            \cup (IF Nullable(e.right) THEN Factors(e.left, w) ELSE {})
      [] e.op = "Union" -> Factors(e.left, w) \cup Factors(e.right, w)
      [] e.op = "Star" -> Closure(Factors(e.regex, w), Cardinality(Positions(w)))

\* the positions of w from which the rest of the word is in the omega-expression
RECURSIVE Suffixes(_, _)
Suffixes(x, w) ==
    CASE x.op = "OmegaEmpty" -> {}
      [] x.op = "Repeat" ->
            LET F == Closure(Factors(x.regex, w), Cardinality(Positions(w)))
            IN {p \in Positions(w) :
                  \E q \in Positions(w) : (p = q \/ <<p, q>> \in F) /\ <<q, q>> \in F}
      [] x.op = "ConcatOmega" ->
            LET F == Factors(x.left, w)
                S == Suffixes(x.right, w)
            IN {p \in Positions(w) :
                  \E q \in S : <<p, q>> \in F \/ (p = q /\ Nullable(x.left))}
      [] x.op = "UnionOmega" -> Suffixes(x.left, w) \cup Suffixes(x.right, w)

\* u.v^omega is matched by the omega-expression x
Matches(x, w) == 1 \in Suffixes(x, w)

\* the steps of gr on w: from <<state, position>> along an edge labelled with
\* the letter at the position (accepting edges only when accOnly)
Steps(gr, w, accOnly) ==
    LET V == DOMAIN gr.vertices
        Step(s, p, t) ==
            \E i \in 1 .. Len(gr.vertices[s].out_edges) :
                LET e == gr.vertices[s].out_edges[i]
                IN /\ e.dst = t
                   /\ e.label = Symbol(Letter(w, p))
                   /\ (accOnly => e.accepting)
    IN {<<<<x[1], x[2]>>, <<x[3], NextPos(w, x[2])>>>> :
            x \in {y \in V \X Positions(w) \X V : Step(y[1], y[2], y[3])}}

\* gr has a run on u.v^omega from the initial state that takes an accepting
\* edge infinitely often
Accepts(gr, w) ==
    LET C == Closure(Steps(gr, w, FALSE),
                     Cardinality(DOMAIN gr.vertices) * Cardinality(Positions(w)))
        start == <<gr.initial_state, 1>>
    IN \E e \in Steps(gr, w, TRUE) :
          /\ e[1] = start \/ <<start, e[1]>> \in C
          /\ e[2] = e[1] \/ <<e[2], e[1]>> \in C

(* ---------------- the claims ---------------- *)

Called == op \in {"taut_to_regex_bmc", "taut_to_regex_mny"}

\* C1: the expression a lasso driver returns denotes exactly the omega-language
\* of the graph it was given: every u.v^omega is matched by it iff the graph
\* has a run on the word that takes an accepting edge infinitely often.
C1_LanguageOfGraph ==
    (Called /\ ~raised) =>
        \A w \in Words : Matches(result, w) <=> Accepts(g0, w)

\* the states of gr reachable from its initial state along out_edges
Reachable(gr) ==
    LET V == DOMAIN gr.vertices
        E == {x \in V \X V :
                \E i \in 1 .. Len(gr.vertices[x[1]].out_edges) :
                    gr.vertices[x[1]].out_edges[i].dst = x[2]}
        C == Closure(E, Cardinality(V))
    IN {gr.initial_state} \cup {t \in V : <<gr.initial_state, t>> \in C}

\* C2: on a graph none of whose final states is reachable from the initial
\* state, either lasso driver returns OmegaEmpty.
C2_UnreachableFinalsGiveEmpty ==
    (Called /\ Reachable(g0) \cap g0.final_states = {}) => result = OmegaEmpty

\* all edges of the out_edges lists of gr
OutEdgesOf(gr) ==
    UNION {{gr.vertices[s].out_edges[i] : i \in 1 .. Len(gr.vertices[s].out_edges)} :
              s \in DOMAIN gr.vertices}

\* C3: on a graph with no final state (no accepting edge anywhere), either
\* lasso driver returns OmegaEmpty.
C3_NoFinalsGiveEmpty ==
    (Called /\ g0.final_states = {} /\ \A e \in OutEdgesOf(g0) : ~e.accepting)
        => result = OmegaEmpty

C3_Witness ==
    /\ Called
    /\ g0.final_states = {}
    /\ Cardinality(OutEdgesOf(g0)) >= 2
    /\ result = OmegaEmpty

\* what the iteration with locals l appended to all_paths
Added(l) == LassoContribution(l.path1, l.path2, l.path3)

\* C4: per final state f with prefix P (path1), accepting cycle A (path2) and
\* non-accepting cycle N (path3): nothing is contributed when A is None;
\* otherwise, with cycle = A if N is None else Concat(Star(N), A), the
\* contribution is Repeat(cycle) if P is None else ConcatOmega(P, Repeat(cycle));
\* P is None when f is the initial state.
C4_Contribution ==
    (Called /\ ~raised) =>
        \A k \in 1 .. Len(paths) :
            LET P == paths[k].path1
                A == paths[k].path2
                N == paths[k].path3
                cycle == IF N = None THEN A ELSE Concat(Star(N), A)
            IN /\ (paths[k].f = g.initial_state) => P = None
               /\ (A = None) => Added(paths[k]) = <<>>
               /\ (A # None /\ P = None) => Added(paths[k]) = <<Repeat(cycle)>>
               /\ (A # None /\ P # None) =>
                     Added(paths[k]) = <<ConcatOmega(P, Repeat(cycle))>>

C4_Witness ==
    /\ Called
    /\ ~raised
    /\ \E k \in 1 .. Len(paths) :
          /\ paths[k].path1 # None
          /\ paths[k].path2 # None
          /\ paths[k].path3 # None
          /\ Added(paths[k]) # <<>>

\* the contributions of the final states that contributed, in loop order
RECURSIVE Contributions(_)
Contributions(ls) ==
    IF ls = <<>> THEN <<>>
    ELSE Added(Head(ls)) \o Contributions(Tail(ls))

RECURSIVE LeftLeaning(_)
LeftLeaning(c) ==
    IF Len(c) = 1 THEN c[1]
    ELSE UnionOmega(LeftLeaning(SubSeq(c, 1, Len(c) - 1)), c[Len(c)])

C6_GraphUnchanged == Called => g = g0

\* C7: every edge of any out_edges list has a structurally equal edge in the
\* in_edges of its destination, and a structurally equal edge in exactly one of
\* acc_trans / nonacc_trans.
C7_AdjacencyAndTransAgree ==
    \A e \in OutEdgesOf(g) :
        LET inList == g.vertices[e.dst].in_edges
            inAcc == IndexOf(g.acc_trans, e) # 0
            inNonacc == IndexOf(g.nonacc_trans, e) # 0
        IN /\ e.dst \in DOMAIN g.vertices
           /\ IndexOf(inList, e) # 0
           /\ (inAcc /\ ~inNonacc) \/ (inNonacc /\ ~inAcc)

\* C8: after any sequence of add_edge and remove_edge calls that returned, a
\* state is in final_states iff one of its out_edges is accepting.
C8_FinalsIffAcceptingOutEdge ==
    ~raised =>
        \A s \in DOMAIN g.vertices :
            s \in g.final_states <=>
                \E i \in 1 .. Len(g.vertices[s].out_edges) :
                    g.vertices[s].out_edges[i].accepting

\* the out_edges of s in gr that lead to d with accepting flag a, in list order
Group(gr, s, d, a) ==
    LET Keep(e) == e.dst = d /\ e.accepting = a
    IN SelectSeq(gr.vertices[s].out_edges, Keep)

\* C9: when combine_duplicate_edge returns, no two distinct edges share
\* (src, dst, accepting).
C9_NoDuplicatesAfterCombine ==
    (op = "combine_duplicate_edge" /\ ~raised) =>
        \A s, d \in DOMAIN g.vertices : \A a \in BOOLEAN :
            Len(Group(g, s, d, a)) <= 1

\* how often the symbol sym is a leaf of the Union tree label
RECURSIVE LeafCount(_, _)
LeafCount(label, sym) ==
    IF label.op = "Symbol" THEN (IF label.symbol = sym THEN 1 ELSE 0)
    ELSE IF label.op = "Union"
    THEN LeafCount(label.left, sym) + LeafCount(label.right, sym)
    ELSE 0

\* how often sym is a leaf of the labels of the edges
RECURSIVE LeafCountOfEdges(_, _)
LeafCountOfEdges(edges, sym) ==
    IF edges = <<>> THEN 0
    ELSE LeafCount(Head(edges).label, sym) + LeafCountOfEdges(Tail(edges), sym)

\* C10: combine_duplicate_edge replaces every group of edges sharing
\* (src, dst, accepting) by exactly one edge with that src, dst and flag whose
\* label is a Union tree over exactly the labels of the group; groups with
\* different flags are not merged and an edge without duplicate is unchanged.
C10_GroupsBecomeOneUnion ==
    (op = "combine_duplicate_edge" /\ ~raised) =>
        \A s, d \in DOMAIN g0.vertices : \A a \in BOOLEAN :
            LET before == Group(g0, s, d, a)
                after == Group(g, s, d, a)
            IN /\ (before = <<>>) => after = <<>>
               /\ (Len(before) = 1) => after = before
               /\ (Len(before) >= 2) =>
                     /\ Len(after) = 1
                     /\ \A sym \in Labels :
                           LeafCount(after[1].label, sym) = LeafCountOfEdges(before, sym)

\* the finite word w as a lasso whose period is a letter of no label
AsLasso(w) == [u |-> w, v |-> <<"#">>]

\* the regex e denotes the finite word w
MatchesWord(e, w) ==
    IF w = <<>> THEN Nullable(e)
    ELSE <<1, Len(w) + 1>> \in Factors(e, AsLasso(w))

\* gr has a path from s to t labelled with the non-empty word w whose first
\* edge is accepting (firstAcc) or non-accepting (~firstAcc)
PathWithFirst(gr, s, t, w, firstAcc) ==
    LET C == Closure(Steps(gr, AsLasso(w), FALSE),
                     Cardinality(DOMAIN gr.vertices) * (Len(w) + 1))
    IN \E i \in 1 .. Len(gr.vertices[s].out_edges) :
          LET e == gr.vertices[s].out_edges[i]
          IN /\ e.label = Symbol(w[1])
             /\ e.accepting = firstAcc
             /\ \/ Len(w) = 1 /\ e.dst = t
                \/ <<<<e.dst, 2>>, <<t, Len(w) + 1>>>> \in C

\* the non-empty finite words tested
FiniteWords == SeqsUpTo(MaxWord) \ {<<>>}

\* C11: for every final state f, every word of the accepting-cycle expression
\* labels a path f -> f of the graph that starts with an accepting edge, and
\* every word of the non-accepting-cycle expression labels a path f -> f that
\* starts with a non-accepting edge.
C11_CycleFirstEdge ==
    (Called /\ ~raised) =>
        \A k \in 1 .. Len(paths) :
            \A w \in FiniteWords :
                /\ (paths[k].path2 # None /\ MatchesWord(paths[k].path2, w))
                      => PathWithFirst(g0, paths[k].f, paths[k].f, w, TRUE)
                /\ (paths[k].path3 # None /\ MatchesWord(paths[k].path3, w))
                      => PathWithFirst(g0, paths[k].f, paths[k].f, w, FALSE)
                /\ ~MatchesWord(IF paths[k].path2 # None THEN paths[k].path2
                                ELSE Symbol("a"), <<>>)

C11_Witness ==
    /\ Called
    /\ ~raised
    /\ \E k \in 1 .. Len(paths) :
          /\ paths[k].path2 # None
          /\ paths[k].path3 # None
          /\ paths[k].path2.op = "Concat"
          /\ \E w \in FiniteWords : MatchesWord(paths[k].path3, w)

\* the timeline length as it is defined by recursion on the expression
RECURSIVE length(_)
length(e) ==
    CASE e.op \in {"Epsilon", "Empty", "OmegaEmpty"} -> 0
      [] e.op = "Symbol" -> 1
      [] e.op \in {"Concat", "ConcatOmega"} -> length(e.left) + length(e.right)
      [] e.op \in {"Star", "Repeat"} -> length(e.regex)
      [] e.op \in {"Union", "UnionOmega"} ->
            IF length(e.left) > length(e.right) THEN length(e.left)
            ELSE length(e.right)

\* C12: for every finite Regex expression e, of any nesting shape and with
\* Empty or Epsilon sub-expressions, len(e) is the recursively defined
\* timeline length of e
C12_LenIsTimelineLength ==
    (expr # None /\ ~IsOmega(expr) /\ measures.len # None)
        => measures.len = Return(length(expr))

\* C13: for every OmegaRegex expression w, also with OmegaEmpty as an operand
\* of UnionOmega or ConcatOmega, len(w) returns a value, and the value is the
\* recursively defined timeline length of w
C13_OmegaLenReturns ==
    (expr # None /\ IsOmega(expr) /\ measures.len # None)
        => (~measures.len.raised /\ measures.len.value = length(expr))

\* the size as the specification words it: 1 for every Symbol, Star and
\* Repeat, the sum of the children for a concatenation, the maximum of the
\* children for a union
RECURSIVE SizeAsSpecified(_)
SizeAsSpecified(e) ==
    CASE e.op \in {"Epsilon", "Empty", "OmegaEmpty"} -> 0
      [] e.op = "Symbol" -> 1
      [] e.op \in {"Star", "Repeat"} -> 1 + SizeAsSpecified(e.regex)
      [] e.op \in {"Concat", "ConcatOmega"} ->
            SizeAsSpecified(e.left) + SizeAsSpecified(e.right)
      [] e.op \in {"Union", "UnionOmega"} ->
            IF SizeAsSpecified(e.left) > SizeAsSpecified(e.right)
            THEN SizeAsSpecified(e.left) ELSE SizeAsSpecified(e.right)

\* whether a Regex expression has an Empty node
RECURSIVE ContainsEmpty(_)
ContainsEmpty(e) ==
    CASE e.op = "Empty" -> TRUE
      [] e.op \in {"Epsilon", "Symbol"} -> FALSE
      [] e.op = "Star" -> ContainsEmpty(e.regex)
      [] e.op \in {"Concat", "Union"} -> ContainsEmpty(e.left) \/ ContainsEmpty(e.right)

\* the number of Symbol, Star, Concat and Union nodes of a Regex expression
RECURSIVE NodeCount(_)
NodeCount(e) ==
    CASE e.op \in {"Epsilon", "Empty"} -> 0
      [] e.op = "Symbol" -> 1
      [] e.op = "Star" -> 1 + NodeCount(e.regex)
      [] e.op \in {"Concat", "Union"} -> 1 + NodeCount(e.left) + NodeCount(e.right)

\* the size as a count of nodes: every Symbol, Star, Repeat, Concat,
\* ConcatOmega, Union and UnionOmega node is 1, children are always added;
\* a Regex expression that has an Empty node counts 0 as a whole
RECURSIVE SizeAsNodeCount(_)
SizeAsNodeCount(e) ==
    CASE e.op = "OmegaEmpty" -> 0
      [] e.op = "Repeat" -> 1 + SizeAsNodeCount(e.regex)
      [] e.op \in {"ConcatOmega", "UnionOmega"} ->
            1 + SizeAsNodeCount(e.left) + SizeAsNodeCount(e.right)
      [] OTHER -> IF ContainsEmpty(e) THEN 0 ELSE NodeCount(e)

C15_LenAtMostSize ==
    (expr # None /\ ~IsOmega(expr) /\ measures.len # None /\ measures.size # None)
        => /\ ~measures.len.raised
           /\ ~measures.size.raised
           /\ measures.len.value <= measures.size.value

\* len and size have both returned for an expression with a Star, a Concat
\* and a Union whose len is positive
C15_Witness ==
    /\ expr # None
    /\ ~IsOmega(expr)
    /\ measures.len # None
    /\ measures.size # None
    /\ expr.op = "Union"
    /\ expr.left.op = "Concat"
    /\ expr.right.op = "Star"
    /\ measures.len.value > 1

\* the graph with the edges 0->1 a non-accepting, 1->2 b non-accepting and
\* 2->0 c accepting, whatever the order they were added in
IsScenario3(gr) ==
    /\ gr # None
    /\ \A src \in States :
          /\ Len(gr.vertices[src].out_edges) = 1
          /\ gr.vertices[src].out_edges[1].dst = (src + 1) % NumStates
          /\ gr.vertices[src].out_edges[1].label = Symbol(RingLabel(src))
          /\ gr.vertices[src].out_edges[1].accepting = (src = 2)

\* C16 (as stated): on the graph 0 -a-> 1 -b-> 2 =c=> 0 both lasso drivers
\* return an expression of length 3 and star height 0
C16_Scenario3Length3 ==
    (IsScenario3(g0) /\ Called)
        => /\ ~raised
           /\ measures.len # None => measures.len = Return(3)
           /\ measures.star_height # None => measures.star_height = Return(0)

\* C16 (amended): on that graph both lasso drivers return
\* (a b)(c a b)^omega, whose length is 5 and whose star height is 0
C16_Scenario3Length5 ==
    (IsScenario3(g0) /\ Called)
        => /\ ~raised
           /\ result = ConcatOmega(Concat(Symbol("a"), Symbol("b")),
                                   Repeat(Concat(Concat(Symbol("c"), Symbol("a")),
                                                 Symbol("b"))))
           /\ measures.len # None => measures.len = Return(5)
           /\ measures.star_height # None => measures.star_height = Return(0)

\* a lasso driver has run on that graph and its result has been measured
C16_Witness ==
    /\ IsScenario3(g0)
    /\ Called
    /\ expr = result
    /\ measures.len # None
    /\ measures.star_height # None

\* a lasso driver has been called a second time on the same graph object
CalledAgain == op \in {"taut_to_regex_bmc again", "taut_to_regex_mny again"}

\* C17: the second of two calls of the same lasso driver on one graph object
\* returns an expression structurally equal to the one the first call returned
C17_SecondCallEqual == CalledAgain => (~raised /\ result = expr)

\* both automata were built in a solver with automatic shape selection
BothBuilt ==
    /\ run # None
    /\ run.started # <<>>
    /\ AutomatonFn(run.solver)
          \in {"transition_or_state_aut", "transition_or_state_converted_aut"}
    /\ run.result_transition # None
    /\ run.result_state # None

\* of two automata: the one with more accepting states, else the one with
\* fewer states, else the state shape
PreferMoreAccepting(t, s) ==
    IF num_accepting_states(t) > num_accepting_states(s) THEN t
    ELSE IF num_accepting_states(s) > num_accepting_states(t) THEN s
    ELSE IF num_states(t) < num_states(s) THEN t
    ELSE s

\* of two automata: the one with fewer accepting states, else the one with
\* fewer states, else the state shape
PreferFewerAccepting(t, s) ==
    IF num_accepting_states(t) < num_accepting_states(s) THEN t
    ELSE IF num_accepting_states(s) < num_accepting_states(t) THEN s
    ELSE IF num_states(t) < num_states(s) THEN t
    ELSE s

\* C18 (as stated): when both shapes were built, the selection returns the
\* automaton with strictly more accepting states, on a tie the one with fewer
\* states, on a second tie the state shape
C18_SelectsMoreAccepting ==
    BothBuilt => run.automaton = PreferMoreAccepting(run.result_transition.automaton,
                                                     run.result_state.automaton)

\* C18 (amended): when both shapes were built, the selection returns the
\* automaton with strictly fewer accepting states, on a tie the one with
\* fewer states, on a second tie the state shape
C18_SelectsFewerAccepting ==
    BothBuilt => run.automaton = PreferFewerAccepting(run.result_transition.automaton,
                                                      run.result_state.automaton)

\* both shapes were built, the transition shape has fewer accepting states
\* and more states, and it was selected
C18_Witness ==
    /\ BothBuilt
    /\ num_accepting_states(run.result_transition.automaton)
          < num_accepting_states(run.result_state.automaton)
    /\ num_states(run.result_transition.automaton)
          > num_states(run.result_state.automaton)
    /\ run.automaton.shape = "transition"

\* the stages in their order
StageOrder == <<"automaton", "regex", "simplify">>

\* C19: in every solver the stages start in the order automaton, regex,
\* simplify; the regex stage only after the automaton stage returned a graph,
\* the simplify stage only after the regex stage returned an expression; once
\* a stage has returned None the solver has returned None and no later stage
\* is ever started
C19_StagesInOrder ==
    run # None =>
       /\ Len(run.started) <= 3
       /\ run.started = SubSeq(StageOrder, 1, Len(run.started))
       /\ Len(run.started) >= 2 => run.automaton # None
       /\ Len(run.started) >= 3 => run.regex # None
       /\ (Len(run.started) >= 1 /\ run.automaton = None)
             => (Len(run.started) = 1 /\ run.pc = "done" /\ run.ret.regex = None)
       /\ (Len(run.started) >= 2 /\ run.regex = None)
             => (Len(run.started) = 2 /\ run.pc = "done" /\ run.ret.regex = None)
       /\ (Len(run.started) >= 3 /\ run.simplified = None)
             => (run.pc = "done" /\ run.ret.regex = None)

\* a solver with a simplify stage has returned None after its regex stage
\* returned None
C19_Witness ==
    /\ run # None
    /\ run.solver \in Simplifying
    /\ run.started = <<"automaton", "regex">>
    /\ run.regex = None
    /\ run.pc = "done"

\* C20: every solver returns, on every outcome, timings of exactly three
\* entries
C20_TimingsTriple ==
    (run # None /\ run.pc = "done") => Len(run.ret.timings) = 3

\* the (src, dst, label, accepting) of the automaton edges that leave src,
\* in the order of aut.edges()
RECURSIVE ExpectedOut(_, _)
ExpectedOut(edges, src) ==
    IF edges = <<>> THEN <<>>
    ELSE (IF Head(edges).src = src
          THEN <<[src |-> src, dst |-> Head(edges).dst,
                  label |-> Symbol(Head(edges).cond),
                  accepting |-> 0 \in Head(edges).acc]>>
          ELSE <<>>) \o ExpectedOut(Tail(edges), src)

\* an adjacency list without the identities of its edge objects
Plain(lst) ==
    [k \in 1 .. Len(lst) |->
        [src |-> lst[k].src, dst |-> lst[k].dst, label |-> lst[k].label,
         accepting |-> lst[k].accepting]]

\* C21: importing an automaton whose number of acceptance sets is not one
\* fails and gives no graph; for one acceptance set the graph has one edge per
\* automaton edge, with its src and dst, the label Symbol(formula string) and
\* the accepting flag "the edge is in acceptance set 0"
C21_ImportOneAcceptanceSet ==
    op = "aut_to_tgraph" =>
       IF args.num_sets # 1 THEN raised /\ g = None
       ELSE /\ ~raised
            /\ g # None
            /\ DOMAIN g.vertices = 0 .. (args.num_states - 1)
            /\ \A v \in DOMAIN g.vertices :
                  Plain(g.vertices[v].out_edges) = ExpectedOut(args.edges, v)

\* an automaton with one acceptance set, an accepting and a non-accepting
\* edge has been imported
C21_Witness ==
    /\ op = "aut_to_tgraph"
    /\ args.num_sets = 1
    /\ Len(args.edges) = 2
    /\ args.edges[1].acc = {0}
    /\ args.edges[2].acc = {}
    /\ ~raised

\* C22: the cache of r is local to one top-level call: whatever calls were
\* made before on the same graph, mcnaughton_yamada(g, i, j, acc) returns the
\* value the recurrence gives for (g, i, j, acc) alone
C22_MemoLocalToCall ==
    op = "mcnaughton_yamada" =>
        result = mcnaughton_yamada(g, args.i, args.j, args.acc)

\* a call in mode None after a call in mode True, on a graph where the two
\* modes give different values for the same endpoints
C22_Witness ==
    /\ op = "mcnaughton_yamada"
    /\ args.acc = "None"
    /\ args.before = "True"
    /\ result # None
    /\ mcnaughton_yamada(g, args.i, args.j, "True") # result
    /\ memo # <<>>

\* the elements of a list
Elems(lst) == {lst[k] : k \in 1 .. Len(lst)}

\* the edges of out_edges of u that rip has added
NewEdges(u) ==
    {e \in Elems(g.vertices[u].out_edges) : e \notin Elems(g0.vertices[u].out_edges)}

\* the self-loops of v in the graph before the call, in list order
SelfLoops(gr, v) ==
    LET IsLoop(e) == e.src = e.dst
    IN SelectSeq(gr.vertices[v].out_edges, IsLoop)

\* the label lu . (r_rip)* . lw, without the starred factor when r_rip is None
RipLabelOf(lu, r_rip, lw) ==
    IF r_rip = None THEN Concat(lu, lw)
    ELSE Concat(lu, Concat(Star(r_rip), lw))

\* C23: after rip(g, v), every new edge u -> w has the label
\* lu . (r_rip)* . lw of an in-edge (u -> v) and an out-edge (v -> w), where
\* r_rip is the Union of the labels of all self-loops of v, left out only
\* when v has no self-loop
C23_StarOfAllSelfLoops ==
    op = "rip" /\ ~raised =>
        \A u \in DOMAIN g.vertices : \A e \in NewEdges(u) :
            \E e_in \in Elems(g0.vertices[args.v_rip].in_edges),
               e_out \in Elems(g0.vertices[args.v_rip].out_edges) :
                /\ e_in.src = u
                /\ e_out.dst = e.dst
                /\ e.label = RipLabelOf(e_in.label,
                                        UnionOfLabels(SelfLoops(g0, args.v_rip)),
                                        e_out.label)

\* the pairs of an in-edge (u -> v) and an out-edge (v -> w) of the graph
\* before the call, the in-edge having the accepting flag a
RipPairs(v, u, w, a) ==
    {<<i, k>> \in (1 .. Len(g0.vertices[v].in_edges))
                  \X (1 .. Len(g0.vertices[v].out_edges)) :
        /\ g0.vertices[v].in_edges[i].src = u
        /\ g0.vertices[v].in_edges[i].accepting = a
        /\ g0.vertices[v].out_edges[k].dst = w}

\* C24: rip(g, v) adds exactly one edge u -> w per pair of an in-edge
\* (u -> v), u # v, and an out-edge (v -> w), w # v, with the accepting flag
\* of the in-edge; afterwards v is no vertex, no adjacency list of a remaining
\* vertex holds an edge from or to v, and every edge of an out_edges list is
\* in the in_edges list of its destination
C24_RipKeepsGraphConsistent ==
    op = "rip" =>
        /\ ~raised
        /\ args.v_rip \notin DOMAIN g.vertices
        /\ \A u \in DOMAIN g.vertices :
              /\ \A w \in DOMAIN g.vertices, a \in BOOLEAN :
                    Cardinality({e \in NewEdges(u) : e.dst = w /\ e.accepting = a})
                        = Cardinality(RipPairs(args.v_rip, u, w, a))
              /\ \A e \in Elems(g.vertices[u].out_edges)
                            \cup Elems(g.vertices[u].in_edges) :
                    e.src # args.v_rip /\ e.dst # args.v_rip
              /\ \A e \in Elems(g.vertices[u].out_edges) :
                    /\ e.dst \in DOMAIN g.vertices
                    /\ e \in Elems(g.vertices[e.dst].in_edges)

\* a state with an accepting in-edge, a non-accepting out-edge and a
\* self-loop has been ripped, and the new edge is there
C24_Witness ==
    /\ op = "rip"
    /\ ~raised
    /\ \E u \in DOMAIN g.vertices, w \in DOMAIN g.vertices :
          /\ u # w
          /\ RipPairs(args.v_rip, u, w, TRUE) # {}
          /\ \E e \in Elems(g0.vertices[args.v_rip].out_edges) :
                e.dst = w /\ ~e.accepting
          /\ SelfLoops(g0, args.v_rip) # <<>>
          /\ \E e \in NewEdges(u) : e.dst = w /\ e.accepting

\* the states other than the endpoints, smallest first
RECURSIVE Ascending(_)
Ascending(S) ==
    IF S = {} THEN <<>>
    ELSE LET m == CHOOSE x \in S : \A y \in S : x <= y
         IN <<m>> \o Ascending(S \ {m})

\* no two edges of the adjacency lists of gr share (src, dst, accepting)
NoDuplicates(gr) ==
    \A v \in DOMAIN gr.vertices :
       \A i \in 1 .. Len(gr.vertices[v].out_edges),
          k \in 1 .. Len(gr.vertices[v].out_edges) :
            i # k =>
               ~(/\ gr.vertices[v].out_edges[i].dst = gr.vertices[v].out_edges[k].dst
                 /\ gr.vertices[v].out_edges[i].accepting
                       = gr.vertices[v].out_edges[k].accepting)

\* C25: the elimination loop of the three path queries rips the smallest
\* state other than the endpoints each time, makes exactly (number of
\* states - number of distinct endpoints) rips, and leaves a working graph
\* with only v_start and v_end and no two edges sharing (src, dst, accepting)
C25_LoopRipsAllInOrder ==
    op \in PathFns =>
        /\ ~raised
        /\ args.ripped = Ascending(States \ {args.v_start, args.v_end})
        /\ Len(args.ripped) = NumStates - Cardinality({args.v_start, args.v_end})
        /\ DOMAIN g0.vertices = {args.v_start, args.v_end}
        /\ NoDuplicates(g0)

\* the edges the mode of the query fn keeps
ModeKeeps(fn, e) ==
    IF fn = "find_accpath" THEN e.accepting
    ELSE IF fn = "find_nonaccpath" THEN ~e.accepting
    ELSE TRUE

\* the union of the mode-filtered labels of the edges v_start -> dst of gr
FilteredUnion(fn, gr, v_start, dst) ==
    LET Keep(e) == e.dst = dst /\ ModeKeeps(fn, e)
    IN UnionOfLabels(SelectSeq(gr.vertices[v_start].out_edges, Keep))

\* the value the final combination rule gives for r1 and r2
FinalRule(r1, r2, v_start, v_end) ==
    IF r2 = None THEN None
    ELSE IF v_start = v_end THEN r2
    ELSE IF r1 = None THEN r2
    ELSE Concat(Star(r1), r2)

\* C26: after the elimination, with r1 the union of the mode-filtered
\* self-loop labels of v_start and r2 the union of the mode-filtered labels of
\* the edges v_start -> v_end, a path query returns None when r2 is None, r2
\* when v_start = v_end, and otherwise Concat(Star(r1), r2), or r2 alone when
\* r1 is None
C26_FinalCombination ==
    op \in PathFns /\ ~raised =>
        result = FinalRule(FilteredUnion(args.fn, g0, args.v_start, args.v_start),
                           FilteredUnion(args.fn, g0, args.v_start, args.v_end),
                           args.v_start, args.v_end)

\* find_accpath between two different states has returned Concat(Star(r1), r2)
\* on a working graph where v_start also has a non-accepting self-loop
C26_Witness ==
    /\ op = "find_accpath"
    /\ ~raised
    /\ args.v_start # args.v_end
    /\ result # None
    /\ result.op = "Concat"
    /\ result.left = Star(FilteredUnion("find_accpath", g0, args.v_start, args.v_start))
    /\ \E e \in Elems(g0.vertices[args.v_start].out_edges) :
          e.dst = args.v_start /\ ~e.accepting

\* the direct edges i_p -> j_p of gr that count for the call with start
\* state i and mode acc
DirectEdges(gr, i, acc, i_p, j_p) ==
    LET Keep(e) ==
            /\ e.dst = j_p
            /\ (i_p = i /\ acc = "True") => e.accepting
            /\ (i_p = i /\ acc = "False") => ~e.accepting
    IN SelectSeq(gr.vertices[i_p].out_edges, Keep)

\* Star(rep) . go, where a None rep drops the Star factor and a None go
\* drops the product
StarThen(rp, go) ==
    IF go = None THEN None
    ELSE IF rp = None THEN go
    ELSE Concat(Star(rp), go)

\* prev . rest, None when a factor is None
Product(prev, rest) ==
    IF prev = None \/ rest = None THEN None ELSE Concat(prev, rest)

\* i_j united with prod, where a None side drops the union
United(i_j, prod) ==
    IF prod = None THEN i_j
    ELSE IF i_j = None THEN prod
    ELSE Union(i_j, prod)

\* the recurrence r(i_p, j_p, k) as the claim states it
RECURSIVE Recurrence(_, _, _, _, _, _)
Recurrence(gr, i, acc, i_p, j_p, k) ==
    IF k = -1 THEN UnionOfLabels(DirectEdges(gr, i, acc, i_p, j_p))
    ELSE IF k = j_p THEN Recurrence(gr, i, acc, i_p, j_p, k - 1)
    ELSE IF k = i_p
    THEN StarThen(Recurrence(gr, i, acc, i_p, i_p, k - 1),
                  Recurrence(gr, i, acc, i_p, j_p, k - 1))
    ELSE United(Recurrence(gr, i, acc, i_p, j_p, k - 1),
                Product(Recurrence(gr, i, acc, i_p, k, k - 1),
                        StarThen(Recurrence(gr, i, acc, k, k, k - 1),
                                 Recurrence(gr, i, acc, k, j_p, k - 1))))

\* C27: mcnaughton_yamada(g, i, j, acc) is r(i, j, n - 1) of the recurrence:
\* direct edges at k = -1 (filtered by the accepting flag only at the start
\* state i of the call), pass-through at k = j, Star(r(i,i,k-1)) . r(i,j,k-1)
\* at k = i # j, and otherwise r(i,j,k-1) united with
\* r(i,k,k-1) . Star(r(k,k,k-1)) . r(k,j,k-1), with the None rules
C27_Recurrence ==
    op = "mcnaughton_yamada" =>
        result = Recurrence(g, args.i, args.acc, args.i, args.j, NumStates - 1)

\* a call in mode True whose value has a product with a Star factor through
\* a state other than the endpoints, entered by a non-accepting edge
C27_Witness ==
    /\ op = "mcnaughton_yamada"
    /\ args.acc = "True"
    /\ args.i # args.j
    /\ result # None
    /\ result.op = "Concat"
    /\ result.right.op = "Concat"
    /\ result.right.left.op = "Star"
    /\ \E k \in States \ {args.i, args.j} :
          /\ \E e \in Elems(g.vertices[k].out_edges) : e.dst = k
          /\ \E e \in Elems(g.vertices[k].out_edges) :
                e.dst = args.j /\ ~e.accepting

\* C28: run_with_timeout returns only when the worker is no longer alive, a
\* worker still alive when the timeout expired having been terminated first;
\* it returns None when the timeout expired or func raised an exception, and
\* never the value of a worker that terminate() ended
C28_TimeoutGivesNone ==
    run.pc = "returned" =>
        /\ run.worker = "dead"
        /\ run.timed_out => run.terminate
        /\ (run.timed_out \/ args.func = "raises") => run.value = "None"
        /\ run.killed => run.value = "None"

\* C29: for a final state f that is not pseudo-accepting, the queries
\* find_nonaccpath(g, f, f) and mcnaughton_yamada(g, f, f, False) return
\* None on the graph a driver works on, so the guard state_pseudoaccepting(f)
\* on path3 gives the value the unguarded query would give
C29_GuardChangesNothing ==
    Called /\ ~raised =>
        \A f \in g.final_states :
            ~state_pseudoaccepting(g, f) =>
                /\ find_nonaccpath(g, f, f) = None
                /\ mcnaughton_yamada(g, f, f, "False") = None

\* the graph gr without the edges whose source is v: the graph the same
\* add_edge calls build when those that start at v are left out
WithoutOutEdges(gr, v) ==
    LET NotFrom(e) == e.src # v
    IN [gr EXCEPT
          !.vertices = [u \in DOMAIN gr.vertices |->
                           [gr.vertices[u] EXCEPT
                               !.out_edges = SelectSeq(@, NotFrom),
                               !.in_edges = SelectSeq(@, NotFrom)]],
          !.acc_trans = SelectSeq(@, NotFrom),
          !.nonacc_trans = SelectSeq(@, NotFrom),
          !.final_states = @ \ {v}]

\* C30: for v_start # v_end, find_path(g, v_start, v_end) does not depend on
\* the edges that leave v_end: it gives the same as on the graph without them
C30_IndependentOfEndOutEdges ==
    (op = "find_path" /\ args.v_start # args.v_end) =>
        result = find_path(WithoutOutEdges(g, args.v_end), args.v_start, args.v_end)

====
